---- MODULE Spec2Model ----
(***************************************************************************)
(* A model of the research/email multi-agent system: the rate limiter     *)
(* (also under concurrent sessions), the input sanitizer, the web search   *)
(* client, the email validator, the Gmail client, the Email Agent's        *)
(* create_gmail_draft, the Research Agent's search, summary and delegation *)
(* tools, and the message history of the console shell.                    *)
(*                                                                         *)
(* Texts are sequences of chunks.  A chunk is one character ("a", " ",     *)
(* "<", ...) wherever the code looks at characters or lengths (queries,    *)
(* addresses); the fixed parts of templates and the placeholder keys are   *)
(* single multi-character chunks holding no whitespace at their ends and   *)
(* no removed character.  Scores are in hundredths (0.95 is 95).           *)
(***************************************************************************)
EXTENDS Integers, Sequences, FiniteSets, TLC

VARIABLES
    now,            \* time.time(), in seconds
    request_count,  \* RATE_LIMITS["tavily"]["request_count"]
    last_request,   \* RATE_LIMITS["tavily"]["last_request"]
    call,           \* the arguments of the latest search_web_tool call
    outcome,        \* what that call did: returned / raised, the HTTP request
    winLog,         \* history: times of the calls admitted since the last reset
    emails,         \* the argument of the latest validate_email_addresses_tool call
    validation,     \* the dictionary that call returned
    credentials_exists, \* os.path.exists(credentials_path)
    token_file,     \* the file at token_path: absent, or the credential stored
    op,             \* the Gmail operation the caller started
    pc,             \* where that operation stands: idle, auth, draft, done
    attempt,        \* authenticate_gmail_tool: the loop variable
    authenticated,  \* history: how authentication ended inside the operation
    token_before,   \* history: the token file when the operation started
    trace,          \* history: what the running operation did so far, in order
    slept,          \* history: seconds it spent in time.sleep
    args,           \* the recipients given to the running operation
    drafts,         \* history: the drafts-create requests it issued
    result,         \* what the operation returned or raised
    rop,            \* the Research Agent tool that is running
    rpc,            \* where it stands: idle, nested (email_agent.run), done
    nested,         \* history of the nested Email Agent run
    delegation,     \* the AgentDelegationResponse of delegate_to_email_agent
    email_draft,    \* the dictionary create_email_draft returned
    search_results, \* the list the Research Agent's search_web returned last
    searched,       \* history: search_web was called earlier in the run
    summarized,     \* the arguments of the latest summarize_research call
    summary,        \* the dictionary that call returned
    sanitizing,     \* the arguments of the latest sanitize_input call
    sanitized,      \* the string that call returned
    messages,       \* cli.session_state.messages
    turns,          \* history: the interactions completed since the last clear
    wrapper_at,     \* each session's position in the wrapper of rate_limit
    running,        \* the session the event loop is running, 0 between tasks
    admitted_by     \* history: the calls of each session admitted in the window

gmailVars == <<credentials_exists, token_file, op, pc, attempt, authenticated,
               token_before, trace, slept, args, drafts, result>>

delegationVars == <<rop, rpc, nested, delegation, email_draft>>
summaryVars == <<search_results, searched, summarized, summary>>
researchVars == <<delegationVars, summaryVars>>

sanitizeVars == <<sanitizing, sanitized>>
cliVars == <<messages, turns>>
sessionVars == <<wrapper_at, running, admitted_by>>
\* The variables of the components no other component touches.
detachedVars == <<sanitizeVars, cliVars, sessionVars>>

vars == <<now, request_count, last_request, call, outcome, winLog,
          emails, validation, gmailVars, researchVars, detachedVars>>

searchVars == <<now, request_count, last_request, call, outcome, winLog>>
validateVars == <<emails, validation>>

(***************************************************************************)
(* Bounds of the model.                                                    *)
(***************************************************************************)
Epoch == 100          \* the clock reading when the process starts
SearchHorizon == 122  \* seconds of process lifetime explored, search client
LimiterHorizon == 200 \* seconds of process lifetime explored, rate limiter
MaxHttpResults == 1   \* results in one search response
MaxEmails == 2        \* addresses in one list given to the validator
MaxRecipients == 2    \* addresses in the to list of a draft

(***************************************************************************)
(* Program constants.                                                      *)
(***************************************************************************)
max_requests == 10
window == 60
query_max_length == 500

Min(S) == CHOOSE x \in S : \A y \in S : x <= y
Max(S) == CHOOSE x \in S : \A y \in S : y <= x
Pad(c, n) == [i \in 1..n |-> c]

(***************************************************************************)
(* sanitize_input                                                          *)
(***************************************************************************)
Dangerous == {"<", ">", "\"", "'", "\\"}
Whitespace == {" ", "\t", "\n"}

\* The first and the last index of s holding no whitespace (Len(s) + 1 and 0
\* when s is all whitespace).
first_kept(s) ==
    CHOOSE i \in 1..(Len(s) + 1) :
        /\ i = Len(s) + 1 \/ s[i] \notin Whitespace
        /\ \A j \in 1..(i - 1) : s[j] \in Whitespace
last_kept(s) ==
    CHOOSE i \in 0..Len(s) :
        /\ i = 0 \/ s[i] \notin Whitespace
        /\ \A j \in (i + 1)..Len(s) : s[j] \in Whitespace

\* str.strip(): leading and trailing whitespace removed
strip(s) == SubSeq(s, first_kept(s), last_kept(s))

\* re.sub(r'[<>\"\'\\]', '', text)
remove_dangerous(text) == SelectSeq(text, LAMBDA c : c \notin Dangerous)

\* s[:n]: the first n characters, and for a negative n all but the last -n
slice_to(s, n) ==
    SubSeq(s, 1, IF n >= 0 THEN Min({n, Len(s)}) ELSE Max({Len(s) + n, 0}))

truncate(s, max_length) ==
    IF Len(s) > max_length THEN slice_to(s, max_length) ELSE s

sanitize_input_keeping_blanks(text, max_length) ==
    IF text = <<>> THEN <<>>
    ELSE truncate(remove_dangerous(text), max_length)
sanitize_input(text, max_length) ==
    IF text = <<>> THEN <<>>
    ELSE strip(truncate(remove_dangerous(text), max_length))

\* The inputs of a direct call: None and "" are both the empty text.
MaxTextLen == 4
TextChars == {"a", " ", "<", "\\"}
Texts == UNION {[1..k -> TextChars] : k \in 0..MaxTextLen}
MaxLengths == {0, 1, 2, 3, 1000}
NoSanitizing == [made |-> FALSE, text |-> <<>>, max_length |-> 0]

(***************************************************************************)
(* rate_limit: the wrapper around search_web_tool                          *)
(***************************************************************************)
\* current_time - limit_config["last_request"] > limit_config["window"]
window_passed_at_edge(current_time, last) == current_time - last >= window
window_passed(current_time, last) == current_time - last > window

\* limit_config["request_count"] >= limit_config["max_requests"]
limit_exceeded(count) == count >= max_requests

\* The wrapper up to the call of the wrapped function: the limiter's new
\* state and whether the wrapped function is called at all.
rate_limit_touching(current_time, count, last) ==
    LET reset == window_passed(current_time, last)
        count1 == IF reset THEN 0 ELSE count
    IN  IF limit_exceeded(count1)
        THEN [admitted |-> FALSE, reset |-> reset, count |-> count1, last |-> last]
        ELSE [admitted |-> TRUE, reset |-> reset, count |-> count1 + 1,
              last |-> current_time]
rate_limit(current_time, count, last) ==
    LET reset == window_passed(current_time, last)
        count1 == IF reset THEN 0 ELSE count
        last1 == IF reset THEN current_time ELSE last
    IN  IF limit_exceeded(count1)
        THEN [admitted |-> FALSE, reset |-> reset, count |-> count1, last |-> last1]
        ELSE [admitted |-> TRUE, reset |-> reset, count |-> count1 + 1, last |-> last1]

(***************************************************************************)
(* _generate_mock_search_results                                           *)
(***************************************************************************)
AISummaryTitle == <<"AI Summary">>

generate_mock_search_results(query) ==
    << [title |-> <<"Research Article about ">> \o query,
        url |-> <<"https://example.com/research">>,
        content |-> <<"This is a mock research article about ">> \o query
                    \o <<". The content discusses key aspects">>,
        score |-> 90],
       [title |-> <<"News Report on ">> \o query,
        url |-> <<"https://example.com/news">>,
        content |-> <<"Recent news coverage about ">> \o query
                    \o <<" including updates and analysis">>,
        score |-> 80],
       [title |-> <<"Technical Documentation for ">> \o query,
        url |-> <<"https://example.com/docs">>,
        content |-> <<"Technical documentation and implementation details for ">>
                    \o query \o <<" including code examples">>,
        score |-> 70],
       [title |-> AISummaryTitle,
        url |-> <<>>,
        content |-> <<"Based on research about ">> \o query
                    \o <<", here are the key findings">>,
        score |-> 95] >>

(***************************************************************************)
(* search_web_tool: the wrapped function                                   *)
(***************************************************************************)
Placeholders == {<<"your_tavily_api_key_here">>, <<"test_key">>}

\* not api_key or api_key.strip() in [...]
is_placeholder(api_key) == api_key = <<>> \/ strip(api_key) \in Placeholders

\* min(max(max_results, 1), 20)
clamp_max_results(max_results) == Min({Max({max_results, 1}), 20})

\* score = max(1.0 - idx * 0.05, 0.1), idx from 0
position_score_unbounded(idx) == 100 - idx * 5
position_score(idx) == Max({100 - idx * 5, 10})

format_results(results) ==
    [i \in 1..Len(results) |->
        [title |-> results[i].title, url |-> results[i].url,
         content |-> results[i].content, score |-> position_score(i - 1)]]

answer_entry(answer) ==
    [title |-> AISummaryTitle, url |-> <<>>, content |-> answer, score |-> 95]

NoRequest == <<>>
Returned(results, request, response) ==
    [kind |-> "returned", exc |-> "", results |-> results,
     request |-> request, response |-> response]
Raised(exc) ==
    [kind |-> "raised", exc |-> exc, results |-> <<>>,
     request |-> NoRequest, response |-> <<>>]

EmptyQueryError == "ValueError: Query cannot be empty after sanitization"

\* What the response handling returns: status 429, 401, any other status
\* but 200, httpx.RequestError and any other exception give the mock list.
handle_response_empty(query, include_answer, resp) ==
    IF resp.kind = "status" /\ resp.status = 200
    THEN format_results(resp.results)
         \o (IF resp.answer # <<>> /\ include_answer
             THEN <<answer_entry(resp.answer)>> ELSE <<>>)
    ELSE IF resp.kind = "status" /\ resp.status \in {429, 401}
    THEN generate_mock_search_results(query)
    ELSE <<>>
handle_response(query, include_answer, resp) ==
    IF resp.kind = "status" /\ resp.status = 200
    THEN format_results(resp.results)
         \o (IF resp.answer # <<>> /\ include_answer
             THEN <<answer_entry(resp.answer)>> ELSE <<>>)
    ELSE generate_mock_search_results(query)

\* client.post(...) and what follows it, inside the try block
post_request_propagating(payload, resp) ==
    IF resp.kind = "RequestError"
    THEN [kind |-> "raised", exc |-> "httpx.RequestError", results |-> <<>>,
          request |-> <<payload>>, response |-> <<resp>>]
    ELSE Returned(handle_response(payload.query, payload.include_answer, resp),
                  <<payload>>, <<resp>>)
post_request(payload, resp) ==
    Returned(handle_response(payload.query, payload.include_answer, resp),
             <<payload>>, <<resp>>)

search_web_tool(api_key, query, max_results, include_answer, resp) ==
    IF is_placeholder(api_key)
    THEN Returned(generate_mock_search_results(query), NoRequest, <<>>)
    ELSE LET q == sanitize_input(query, query_max_length)
         IN  IF q = <<>>
             THEN Raised(EmptyQueryError)
             ELSE post_request([api_key |-> api_key, query |-> q,
                                max_results |-> clamp_max_results(max_results),
                                include_answer |-> include_answer], resp)

(***************************************************************************)
(* The inputs of a search call and the answers of the search service.      *)
(***************************************************************************)
SeqsUpTo(S, n) == UNION {[1..k -> S] : k \in 0..n}

Keys == {<<>>, <<"your_tavily_api_key_here">>, <<" ", "test_key", " ">>,
         <<"tvly-key">>}
Queries == {<<>>, <<"a">>, <<" ">>, <<"<", " ">>, <<" ", "a", "<", "b">>,
            Pad(" ", query_max_length) \o <<"a">>,
            Pad("a", query_max_length) \o <<"b">>}
MaxResultsArgs == {0, 25}

DocA == [title |-> <<"Doc A">>, url |-> <<"https://a.example">>, content |-> <<"text a">>]
DocB == [title |-> <<"Doc B">>, url |-> <<"https://b.example">>, content |-> <<"text b">>]
Answers == {<<>>, <<"an answer">>}
Responses ==
    {[kind |-> "status", status |-> 200, results |-> r, answer |-> a] :
        r \in SeqsUpTo({DocA, DocB}, MaxHttpResults), a \in Answers}
    \cup {[kind |-> "status", status |-> s, results |-> <<>>, answer |-> <<>>] :
        s \in {401, 429, 500}}
    \cup {[kind |-> k, status |-> 0, results |-> <<>>, answer |-> <<>>] :
        k \in {"RequestError", "Exception"}}

NoCall == [api_key |-> <<>>, query |-> <<>>, time |-> 0, made |-> FALSE]
NoOutcome == [kind |-> "none", exc |-> "", results |-> <<>>,
              request |-> NoRequest, response |-> <<>>]
RateLimitError == "Exception: Rate limit exceeded for tavily"

(***************************************************************************)
(* validate_email_addresses_tool                                           *)
(***************************************************************************)
max_email_length == 254
max_domain_length == 253

Letters == {"a", "b", "c", "m", "o", "x"}
Digits == {"1"}
LocalChars == Letters \cup Digits \cup {".", "_", "%", "+", "-"}
DomainChars == Letters \cup Digits \cup {".", "-"}

\* ^[a-zA-Z0-9._%+-]+@[a-zA-Z0-9.-]+\.[a-zA-Z]{2,} up to the end of s
matches_to_end(s) ==
    \E at \in {i \in 1..Len(s) : s[i] = "@"} :
    \E dot \in {i \in 1..Len(s) : s[i] = "."} :
        /\ at >= 2
        /\ dot >= at + 2
        /\ Len(s) >= dot + 2
        /\ \A i \in 1..(at - 1) : s[i] \in LocalChars
        /\ \A i \in (at + 1)..(dot - 1) : s[i] \in DomainChars
        /\ \A i \in (dot + 1)..Len(s) : s[i] \in Letters

\* re.match(email_regex, email): $ also matches before one final newline
re_match(email) ==
    \/ matches_to_end(email)
    \/ /\ Len(email) >= 1
       /\ email[Len(email)] = "\n"
       /\ matches_to_end(SubSeq(email, 1, Len(email) - 1))

\* email.split('@')[1]: what lies between the first "@" and the next one
domain_of(email) ==
    LET ats == {i \in 1..Len(email) : email[i] = "@"}
        first == Min(ats)
        rest == {i \in ats : i > first}
    IN  SubSeq(email, first + 1, IF rest = {} THEN Len(email) ELSE Min(rest) - 1)

\* re.search of \.\. , \-\- , ^\- , \-$ , \.$ , ^\. in the domain
is_suspicious(domain) ==
    \/ \E i \in 1..(Len(domain) - 1) : domain[i] = "." /\ domain[i + 1] = "."
    \/ \E i \in 1..(Len(domain) - 1) : domain[i] = "-" /\ domain[i + 1] = "-"
    \/ Len(domain) >= 1 /\ domain[1] \in {"-", "."}
    \/ Len(domain) >= 1 /\ domain[Len(domain)] \in {"-", "."}
    \/ /\ Len(domain) >= 2
       /\ domain[Len(domain)] = "\n"
       /\ domain[Len(domain) - 1] \in {"-", "."}

\* The body of the loop after sanitization: the list the address goes to.
classify(email) ==
    IF ~re_match(email) THEN "invalid"
    ELSE IF Len(email) > max_email_length THEN "invalid"
    ELSE IF Len(domain_of(email)) > max_domain_length THEN "invalid"
    ELSE IF is_suspicious(domain_of(email)) THEN "suspicious"
    ELSE "valid"

\* The loop: each address sanitized, then appended to the list of its class.
appended(addresses, class) ==
    SelectSeq([i \in 1..Len(addresses) |->
                  sanitize_input(addresses[i], max_email_length)],
              LAMBDA e : classify(e) = class)

validation_result(valid, invalid, suspicious) ==
    [made |-> TRUE,
     valid_emails |-> valid, invalid_emails |-> invalid,
     suspicious_emails |-> suspicious,
     total_valid |-> Len(valid), total_invalid |-> Len(invalid),
     total_suspicious |-> Len(suspicious)]

validate_email_addresses_tool_keeping(addresses) ==
    validation_result(appended(addresses, "valid")
                          \o appended(addresses, "suspicious"),
                      appended(addresses, "invalid"),
                      appended(addresses, "suspicious"))
validate_email_addresses_tool(addresses) ==
    validation_result(appended(addresses, "valid"),
                      appended(addresses, "invalid"),
                      appended(addresses, "suspicious"))

NoValidation ==
    [made |-> FALSE, valid_emails |-> <<>>, invalid_emails |-> <<>>,
     suspicious_emails |-> <<>>, total_valid |-> 0, total_invalid |-> 0,
     total_suspicious |-> 0]

(***************************************************************************)
(* The address lists given to the validator.                               *)
(***************************************************************************)
Plain == <<"a", "@", "b", ".", "c", "o">>
Addresses ==
    {Plain,
     <<"a", "b">>,
     <<"@", "b", ".", "c", "o">>,
     <<"a", "@", "b", ".", "c", "1">>,
     <<"a", "@", "b", ".", ".", "c", "o">>,
     <<"a", "@", "-", "b", ".", "c", "o">>,
     <<"<", "a", "@", "b", ".", "c", "o", ">">>,
     <<" ", "x", "@", "b", ".", "c", "o", " ">>,
     Plain \o Pad("m", max_email_length - Len(Plain)),
     Plain \o Pad("m", max_email_length - Len(Plain) + 2),
     Pad("a", max_email_length + 1)}
AddressLists == SeqsUpTo(Addresses, MaxEmails)

\* One whole call of validate_email_addresses_tool.
Validate ==
    \E addresses \in AddressLists :
        /\ ~validation.made
        /\ emails' = addresses
        /\ validation' = validate_email_addresses_tool(addresses)
        /\ UNCHANGED <<now, request_count, last_request, call, outcome, winLog, gmailVars, researchVars, detachedVars>>

\* The caller takes the dictionary.
ValidateDone ==
    /\ validation.made
    /\ emails' = <<>>
    /\ validation' = NoValidation
    /\ UNCHANGED <<now, request_count, last_request, call, outcome, winLog, gmailVars, researchVars, detachedVars>>

(***************************************************************************)
(* authenticate_gmail_tool                                                 *)
(***************************************************************************)
max_retries == 3
retry_delay == 2

\* A google.oauth2 credential: valid is "has a token that is not expired".
CredStates ==
    {c \in [valid : BOOLEAN, expired : BOOLEAN, refresh_token : BOOLEAN] :
        ~(c.valid /\ c.expired)}
FreshCreds == [valid |-> TRUE, expired |-> FALSE, refresh_token |-> TRUE]
Refreshed(c) == [c EXCEPT !.valid = TRUE, !.expired = FALSE]

AbsentToken == [stored |-> FALSE, creds |-> FreshCreds]
Stored(c) == [stored |-> TRUE, creds |-> c]
TokenFiles == {AbsentToken} \cup {Stored(c) : c \in CredStates}

\* What the library calls of one attempt do: each returns ("ok") or raises.
Outcomes == {"ok", "raises"}
AttemptEnvs == [load : Outcomes, refresh : Outcomes, flow : Outcomes,
                write : Outcomes]

\* tools.py:250, "if not creds" inside the branch of line 239: creds is None
\* when no token file was loaded or when the refresh has just failed.
runs_flow_without_token(needs, loaded, refreshFailed) == needs /\ ~loaded
runs_flow(needs, loaded, refreshFailed) == needs /\ (~loaded \/ refreshFailed)

\* tools.py:239, "if not creds or not creds.valid": the branch that refreshes
\* or runs the flow, and then writes the token file.
needs_login_always(loaded, creds) == TRUE
needs_login(loaded, creds) == ~loaded \/ ~creds.valid

\* An attempt that raised leaves the token file as its last write or removal
\* left it; an attempt that returned holds the credential creds.
AttemptFailed_clearing(token, events) ==
    [ok |-> FALSE, token |-> AbsentToken, events |-> events, creds |-> FreshCreds]
AttemptFailed(token, events) ==
    [ok |-> FALSE, token |-> token, events |-> events, creds |-> FreshCreds]
AttemptSucceeded(token, events, creds) ==
    [ok |-> TRUE, token |-> token, events |-> events, creds |-> creds]

\* The body of the try block of one attempt (tools.py:232-272): the token
\* file it leaves, the calls it made in order, and whether it returned.
\* A raising write is open(token_path, "w") failing: the file stays as is.
auth_attempt(token, env) ==
    IF token.stored /\ env.load = "raises"
    THEN AttemptFailed(token, <<"load_token">>)
    ELSE
    LET have0 == token.stored                   \* creds is not None
        creds0 == token.creds
        needs == needs_login(have0, creds0)
        tryRefresh == needs /\ have0 /\ creds0.expired /\ creds0.refresh_token
        refreshFailed == tryRefresh /\ env.refresh = "raises"
        creds1 == IF tryRefresh /\ ~refreshFailed THEN Refreshed(creds0) ELSE creds0
        token1 == IF refreshFailed THEN AbsentToken ELSE token
        ev1 == (IF have0 THEN <<"load_token">> ELSE <<>>)
               \o (IF tryRefresh THEN <<"refresh">> ELSE <<>>)
               \o (IF refreshFailed THEN <<"delete_token">> ELSE <<>>)
        runFlow == runs_flow(needs, have0, refreshFailed)
        creds2 == IF runFlow THEN FreshCreds ELSE creds1
        ev2 == ev1 \o (IF runFlow THEN <<"flow">> ELSE <<>>)
        token2 == IF needs THEN Stored(creds2) ELSE token1
        ev3 == ev2 \o (IF needs THEN <<"write_token">> ELSE <<>>)
    IN  IF runFlow /\ env.flow = "raises" THEN AttemptFailed(token1, ev2)
        ELSE IF needs /\ env.write = "raises" THEN AttemptFailed(token1, ev3)
        ELSE IF ~creds2.expired THEN AttemptSucceeded(token2, ev3, creds2)
        ELSE IF creds2.refresh_token /\ env.refresh = "ok"
        THEN AttemptSucceeded(token2, ev3 \o <<"refresh">>, Refreshed(creds2))
        ELSE AttemptFailed(token2, ev3 \o <<"refresh">>)

CredentialsNotFound == <<"Gmail credentials file not found: ", "credentials_path">>
AuthenticationFailed == <<"Gmail authentication failed after ", "3", " attempts: ">>

(***************************************************************************)
(* create_gmail_draft_tool and the Email Agent's create_gmail_draft        *)
(***************************************************************************)
DraftEnvs == [load : Outcomes, build : Outcomes, create : Outcomes]

RECURSIVE join_addresses(_)
\* ", ".join(addresses)
join_addresses(addresses) ==
    IF addresses = <<>> THEN <<>>
    ELSE IF Len(addresses) = 1 THEN addresses[1]
    ELSE addresses[1] \o <<",", " ">> \o join_addresses(Tail(addresses))

\* message.as_bytes() (tools.py:341) raises HeaderParseError for a header
\* value in which a line break is followed by a header name: a "\n", one or
\* more characters other than blank and tab, then ":".
embedded_header(value) ==
    \E i, k \in 1..Len(value) :
        /\ value[i] = "\n"
        /\ value[k] = ":"
        /\ k >= i + 2
        /\ \A j \in (i + 1)..(k - 1) : value[j] \notin {" ", "\t"}

\* tools.py:333-341: the message with its to, cc and bcc headers, serialized.
as_bytes_raises(a) ==
    \/ embedded_header(join_addresses(a.to))
    \/ a.cc # <<>> /\ embedded_header(join_addresses(a.cc))
    \/ a.bcc # <<>> /\ embedded_header(join_addresses(a.bcc))

\* create_gmail_draft_tool once authentication has returned success
\* (tools.py:317-365): the calls it made, the request it issued, its end.
draft_after_auth(token, a, env) ==
    IF ~token.stored \/ env.load = "raises"
    THEN [ok |-> FALSE, events |-> <<"load_token">>, requests |-> <<>>]
    ELSE IF env.build = "raises"
    THEN [ok |-> FALSE, events |-> <<"load_token", "build">>, requests |-> <<>>]
    ELSE IF as_bytes_raises(a)
    THEN [ok |-> FALSE, events |-> <<"load_token", "build", "as_bytes">>,
          requests |-> <<>>]
    ELSE [ok |-> env.create = "ok",
          events |-> <<"load_token", "build", "as_bytes", "drafts_create">>,
          requests |-> <<[to |-> a.to, cc |-> a.cc, bcc |-> a.bcc,
                          answer |-> env.create]>>]

DraftFailed(e) == <<"Failed to create Gmail draft: ">> \o e

NoResult == [kind |-> "none", success |-> FALSE, error |-> <<>>,
             valid_emails |-> <<>>, invalid_emails |-> <<>>]
ReturnedOk == [NoResult EXCEPT !.kind = "returned", !.success = TRUE]
ReturnedFailure(e) == [NoResult EXCEPT !.kind = "returned", !.error = e]
RaisedError(e) == [NoResult EXCEPT !.kind = "raised", !.error = e]

\* An exception e leaving authenticate_gmail_tool, as the caller of the
\* running operation gets it: raised by the two tool functions (wrapped by
\* create_gmail_draft_tool), turned into a dictionary by create_gmail_draft.
surfaced(operation, e) ==
    CASE operation = "authenticate_gmail_tool" -> RaisedError(e)
      [] operation = "create_gmail_draft_tool" -> RaisedError(DraftFailed(e))
      [] OTHER -> ReturnedFailure(DraftFailed(e))

\* create_gmail_draft, lines 105-112: to validated, then cc and bcc when
\* given, their invalid addresses added to those of to.
draft_validation_strict(a) ==
    LET v == validate_email_addresses_tool(a.to \o a.cc \o a.bcc)
    IN  [v EXCEPT !.invalid_emails = v.invalid_emails \o v.suspicious_emails]
draft_validation_to_only(a) ==
    validate_email_addresses_tool(a.to)
draft_validation(a) ==
    LET v == validate_email_addresses_tool(a.to)
        ccInvalid == IF a.cc # <<>>
                     THEN validate_email_addresses_tool(a.cc).invalid_emails
                     ELSE <<>>
        bccInvalid == IF a.bcc # <<>>
                      THEN validate_email_addresses_tool(a.bcc).invalid_emails
                      ELSE <<>>
    IN  [v EXCEPT !.invalid_emails = v.invalid_emails \o ccInvalid \o bccInvalid]

InvalidAddresses(invalid) == <<"Invalid email addresses: ">> \o invalid

NoArgs == [to |-> <<>>, cc |-> <<>>, bcc |-> <<>>]
DraftAddresses == {Plain, <<"a", "b">>, <<"a", "@", "-", "b", ".", "c", "o">>,
                   <<"<", "a", "@", "b", ".", "c", "o", ">">>}
CopyLists == {<<>>, <<Plain>>, <<<<"a", "b">>>>}
DraftArgs == [to : SeqsUpTo(DraftAddresses, MaxRecipients),
              cc : CopyLists, bcc : CopyLists]
\* An address followed by a line break and a header of its own.
WithHeader == Plain \o <<"\n", "b", "c", "c", ":", "x", "@", "b", ".", "c", "o">>
DraftToolArgs == [to : {<<Plain>>, <<<<"a", "b">>>>, <<WithHeader>>},
                  cc : CopyLists, bcc : {<<>>}]

(***************************************************************************)
(* Actions of the Gmail side.                                              *)
(***************************************************************************)
searchAndValidateVars == <<request_count, last_request, call, outcome, winLog,
                           emails, validation>>

\* The entry of authenticate_gmail_tool (tools.py:217-224) inside operation:
\* it raises at once without the credentials file, else the loop starts.
enter_authenticate_retrying(operation, a, events) ==
    /\ op' = operation
    /\ args' = a
    /\ trace' = events \o <<"authenticate">>
    /\ pc' = "auth"
    /\ result' = NoResult
    /\ authenticated' = "none"
    /\ attempt' = 0
    /\ token_before' = token_file
    /\ UNCHANGED <<credentials_exists, token_file, drafts, slept, now,
                   searchAndValidateVars, researchVars, detachedVars>>
enter_authenticate(operation, a, events) ==
    /\ op' = operation
    /\ args' = a
    /\ trace' = events \o <<"authenticate">>
    /\ IF credentials_exists
       THEN pc' = "auth" /\ result' = NoResult /\ authenticated' = "none"
       ELSE /\ pc' = "done"
            /\ result' = surfaced(operation, CredentialsNotFound)
            /\ authenticated' = "raised"
    /\ attempt' = 0
    /\ token_before' = token_file
    /\ UNCHANGED <<credentials_exists, token_file, drafts, slept, now,
                   searchAndValidateVars, researchVars, detachedVars>>

\* A direct call of authenticate_gmail_tool.
CallAuthenticate ==
    /\ pc = "idle"
    /\ enter_authenticate("authenticate_gmail_tool", NoArgs, <<>>)

\* A direct call of create_gmail_draft_tool: it authenticates first.
CallDraftTool ==
    \E a \in DraftToolArgs :
        /\ pc = "idle"
        /\ enter_authenticate("create_gmail_draft_tool", a, <<>>)

\* tools.py:313-315: what create_gmail_draft_tool does with the dictionary
\* authentication returned.  authenticate_gmail_tool itself returns success
\* True or raises; a stand-in put in its place (tests/test_tools.py:145-146)
\* can return success False.
after_authentication_ignoring(success) == "draft"
after_authentication(success) == IF success THEN "draft" ELSE "done"
AuthenticationReportedFailure == <<"Gmail authentication failed">>

\* create_gmail_draft_tool called with authenticate_gmail_tool replaced by a
\* stand-in that returns a dictionary with the given success.
CallDraftToolPatched ==
    \E a \in DraftToolArgs, success \in BOOLEAN :
        /\ pc = "idle"
        /\ op' = "create_gmail_draft_tool"
        /\ args' = a
        /\ trace' = <<"authenticate">>
        /\ authenticated' = IF success THEN "success" ELSE "failure"
        /\ token_before' = token_file
        /\ pc' = after_authentication(success)
        /\ result' = IF pc' = "done"
                      THEN RaisedError(DraftFailed(AuthenticationReportedFailure))
                      ELSE NoResult
        /\ UNCHANGED <<credentials_exists, token_file, attempt, drafts, slept,
                       now, searchAndValidateVars, researchVars, detachedVars>>

\* The Email Agent's create_gmail_draft: the recipients are validated, and
\* with an invalid one the call returns at once.
create_gmail_draft(a) ==
    LET v == draft_validation(a)
    IN  /\ pc = "idle"
        /\ IF v.invalid_emails # <<>>
           THEN /\ op' = "create_gmail_draft"
                /\ args' = a
                /\ trace' = <<"validate">>
                /\ pc' = "done"
                /\ result' = [kind |-> "returned", success |-> FALSE,
                              error |-> InvalidAddresses(v.invalid_emails),
                              valid_emails |-> v.valid_emails,
                              invalid_emails |-> v.invalid_emails]
                /\ token_before' = token_file
                /\ UNCHANGED <<credentials_exists, token_file, attempt,
                               authenticated, drafts, slept, now,
                               searchAndValidateVars, researchVars, detachedVars>>
           ELSE enter_authenticate("create_gmail_draft", a, <<"validate">>)

\* A direct call of the tool function.
CallCreateGmailDraft ==
    /\ rpc = "idle"
    /\ \E a \in DraftArgs : create_gmail_draft(a)

\* One pass of the retry loop: the attempt, and on failure the sleep or,
\* after the last attempt, the exception.
\* tools.py:276: the attempt numbered n (from 0) is followed by the raise,
\* not by a sleep, when n < max_retries - 1 fails.
is_last_attempt_late(n) == n >= max_retries
is_last_attempt(n) == ~(n < max_retries - 1)

AuthAttempt ==
    \E env \in AttemptEnvs :
        LET r == auth_attempt(token_file, env)
            last == is_last_attempt(attempt)
        IN  /\ pc = "auth"
            /\ token_file' = r.token
            /\ trace' = trace \o <<"attempt">> \o r.events
                        \o (IF ~r.ok /\ ~last THEN <<"sleep">> ELSE <<>>)
            /\ slept' = IF ~r.ok /\ ~last THEN slept + retry_delay ELSE slept
            /\ attempt' = IF r.ok \/ last THEN attempt ELSE attempt + 1
            /\ authenticated' = IF r.ok THEN "success"
                                 ELSE IF last THEN "raised" ELSE "none"
            /\ pc' = IF r.ok
                     THEN (IF op = "authenticate_gmail_tool" THEN "done"
                           ELSE after_authentication(TRUE))
                     ELSE (IF last THEN "done" ELSE "auth")
            /\ result' = IF r.ok
                         THEN (IF op = "authenticate_gmail_tool" THEN ReturnedOk
                               ELSE NoResult)
                         ELSE (IF last THEN surfaced(op, AuthenticationFailed)
                               ELSE NoResult)
            /\ UNCHANGED <<credentials_exists, op, args, drafts, now, token_before,
                           searchAndValidateVars, researchVars, detachedVars>>

\* create_gmail_draft_tool after authentication: the draft is created, or
\* the failure surfaces.
DraftCreate ==
    \E env \in DraftEnvs :
        LET r == draft_after_auth(token_file, args, env)
        IN  /\ pc = "draft"
            /\ trace' = trace \o r.events
            /\ drafts' = drafts \o r.requests
            /\ pc' = "done"
            /\ result' = IF r.ok THEN ReturnedOk
                         ELSE surfaced(op, <<"draft creation failed">>)
            /\ UNCHANGED <<credentials_exists, token_file, op, args, attempt,
                           authenticated, token_before, slept, now,
                           searchAndValidateVars, researchVars, detachedVars>>

\* The caller takes the result; the next operation can start.
gmail_reset ==
    /\ pc = "done"
    /\ pc' = "idle"
    /\ op' = "none"
    /\ args' = NoArgs
    /\ trace' = <<>>
    /\ slept' = 0
    /\ drafts' = <<>>
    /\ attempt' = 0
    /\ authenticated' = "none"
    /\ token_before' = AbsentToken
    /\ result' = NoResult
    /\ UNCHANGED <<credentials_exists, token_file, now, searchAndValidateVars, detachedVars>>

GmailDone ==
    /\ rpc = "idle"
    /\ gmail_reset
    /\ UNCHANGED <<researchVars, detachedVars>>


(***************************************************************************)
(* The Research Agent's delegate_to_email_agent and create_email_draft     *)
(***************************************************************************)
MaxToolCalls == 1

\* The nested run: the prompt it got, the results of the create_gmail_draft
\* calls the Email Agent made, and how email_agent.run ended.
NoDeps == [gmail_credentials_path |-> "", gmail_token_path |-> "",
           session_id |-> ""]
NoNested == [prompt |-> <<>>, tool_results |-> <<>>, ended |-> "none",
             output |-> <<>>, error |-> <<>>,
             ctx_deps |-> NoDeps, deps |-> NoDeps, started |-> 0]

\* ctx.deps of the calling Research Agent run (session_id None is "").
ResearchDeps ==
    {[gmail_credentials_path |-> "credentials.json",
      gmail_token_path |-> "token.json", session_id |-> ""],
     [gmail_credentials_path |-> "credentials.json",
      gmail_token_path |-> "work/token.json", session_id |-> "session-1"],
     [gmail_credentials_path |-> "work/credentials.json",
      gmail_token_path |-> "work/token.json", session_id |-> "session-2"]}

\* research_agent.py:121-125: the dependencies of the nested run.
email_deps_without_session(deps) ==
    [gmail_credentials_path |-> deps.gmail_credentials_path,
     gmail_token_path |-> deps.gmail_token_path,
     session_id |-> ""]
email_deps(deps) ==
    [gmail_credentials_path |-> deps.gmail_credentials_path,
     gmail_token_path |-> deps.gmail_token_path,
     session_id |-> deps.session_id]
NoDelegation == [made |-> FALSE, success |-> FALSE, agent_response |-> <<>>,
                 target_agent |-> ""]
NoEmailDraft == [made |-> FALSE, success |-> FALSE, agent_response |-> <<>>,
                 error |-> <<>>]

\* What the model of the Email Agent can write as its final output, and the
\* exceptions email_agent.run can raise.
RunOutputs == {<<"The draft is in your Gmail drafts.">>,
               <<"I could not create the draft.">>}
RunErrors == {<<"model request failed">>}
NestedDraftArgs == {[to |-> <<Plain>>, cc |-> <<>>, bcc |-> <<>>],
                    [to |-> <<<<"a", "b">>>>, cc |-> <<>>, bcc |-> <<>>]}
DelegatePrompts == {<<"Create a draft">>}
Summaries == {<<>>, <<"summary">>}

\* research_agent.py:174-199: the prompt of create_email_draft, one template
\* with the research summary and one without.
email_prompt(recipient_email, research_summary) ==
    IF research_summary # <<>>
    THEN <<"Create a professional email to ", recipient_email,
           "Research Summary:", research_summary>>
    ELSE <<"Create a professional email to ", recipient_email>>

\* research_agent.py:136-148: the response built from the ended run.
delegate_response_by_tools(run) ==
    [made |-> TRUE,
     success |-> run.ended # "raised"
                 /\ \A k \in 1..Len(run.tool_results) : run.tool_results[k].success,
     agent_response |-> IF run.ended = "raised"
                        THEN <<"Delegation failed: ">> \o run.error
                        ELSE run.output,
     target_agent |-> "email_agent"]
delegate_response(run) ==
    IF run.ended = "raised"
    THEN [made |-> TRUE, success |-> FALSE,
          agent_response |-> <<"Delegation failed: ">> \o run.error,
          target_agent |-> "email_agent"]
    ELSE [made |-> TRUE, success |-> TRUE, agent_response |-> run.output,
          target_agent |-> "email_agent"]

\* research_agent.py:212-227: the flat dictionary of create_email_draft.
email_draft_result(d) ==
    IF d.success
    THEN [made |-> TRUE, success |-> TRUE, agent_response |-> d.agent_response,
          error |-> <<>>]
    ELSE [made |-> TRUE, success |-> FALSE, agent_response |-> <<>>,
          error |-> d.agent_response]

\* A tool of the Research Agent starts the nested run with its prompt:
\* email_agent.run(prompt, deps=email_deps, usage=ctx.usage), awaited.
start_nested(tool, prompt) ==
    /\ rpc = "idle"
    /\ pc = "idle"
    /\ rop' = tool
    /\ rpc' = "nested"
    /\ \E deps \in ResearchDeps :
          nested' = [NoNested EXCEPT !.prompt = prompt,
                                     !.ctx_deps = deps,
                                     !.deps = email_deps(deps),
                                     !.started = 1]
    /\ delegation' = NoDelegation
    /\ email_draft' = NoEmailDraft
    /\ UNCHANGED <<now, searchAndValidateVars, gmailVars, summaryVars, detachedVars>>

CallDelegate ==
    \E prompt \in DelegatePrompts : start_nested("delegate_to_email_agent", prompt)

CallCreateEmailDraft ==
    \E research_summary \in Summaries :
        start_nested("create_email_draft", email_prompt(Plain, research_summary))

\* The model of the Email Agent calls its create_gmail_draft tool.
NestedToolCall ==
    /\ rpc = "nested"
    /\ Len(nested.tool_results) < MaxToolCalls
    /\ \E a \in NestedDraftArgs : create_gmail_draft(a)

\* The tool's dictionary goes back to the model of the Email Agent.
NestedToolReturn ==
    /\ rpc = "nested"
    /\ gmail_reset
    /\ nested' = [nested EXCEPT !.tool_results = Append(@, result)]
    /\ UNCHANGED <<rop, rpc, delegation, email_draft, summaryVars, detachedVars>>

\* email_agent.run returns the model's final output or raises; the tool that
\* awaited it builds its result.
NestedRunEnds ==
    \E ended \in {"returned", "raised"}, output \in RunOutputs, e \in RunErrors :
        LET run == [nested EXCEPT !.ended = ended,
                                  !.output = IF ended = "returned" THEN output ELSE <<>>,
                                  !.error = IF ended = "raised" THEN e ELSE <<>>]
        IN  /\ rpc = "nested"
            /\ pc = "idle"
            /\ nested' = run
            /\ delegation' = delegate_response(run)
            /\ email_draft' = IF rop = "create_email_draft"
                              THEN email_draft_result(delegation')
                              ELSE NoEmailDraft
            /\ rpc' = "done"
            /\ UNCHANGED <<rop, now, searchAndValidateVars, gmailVars, summaryVars, detachedVars>>

\* The Research Agent takes the tool's result.
ResearchDone ==
    /\ rpc = "done"
    /\ rop' = "none"
    /\ rpc' = "idle"
    /\ nested' = NoNested
    /\ delegation' = NoDelegation
    /\ email_draft' = NoEmailDraft
    /\ UNCHANGED <<now, searchAndValidateVars, gmailVars, summaryVars, detachedVars>>

(***************************************************************************)
(* Actions of the search side.                                             *)
(***************************************************************************)
\* History: a window opens with the first call admitted after the window
\* before it has passed; the log holds the times of the calls admitted in
\* the open window.
log_admitted(log, t) ==
    IF log = <<>> \/ t - log[1] > window THEN <<t>> ELSE Append(log, t)

\* One whole call of the decorated search_web_tool at the current time.
SearchCall_counting_requests(api_key, query, max_results, include_answer, resp) ==
    LET lim == rate_limit(now, request_count, last_request)
        o == search_web_tool(api_key, query, max_results, include_answer, resp)
    IN  /\ ~call.made
        /\ request_count' = IF lim.admitted /\ o.request = NoRequest
                            THEN lim.count - 1 ELSE lim.count
        /\ last_request' = lim.last
        /\ call' = [api_key |-> api_key, query |-> query, time |-> now, made |-> TRUE]
        /\ outcome' = IF lim.admitted THEN o ELSE Raised(RateLimitError)
        /\ winLog' = IF ~lim.admitted THEN winLog ELSE log_admitted(winLog, now)
        /\ UNCHANGED <<now, emails, validation, gmailVars, researchVars, detachedVars>>
SearchCall(api_key, query, max_results, include_answer, resp) ==
    LET lim == rate_limit(now, request_count, last_request)
    IN  /\ ~call.made
        /\ request_count' = lim.count
        /\ last_request' = lim.last
        /\ call' = [api_key |-> api_key, query |-> query, time |-> now, made |-> TRUE]
        /\ outcome' = IF lim.admitted
                      THEN search_web_tool(api_key, query, max_results,
                                           include_answer, resp)
                      ELSE Raised(RateLimitError)
        /\ winLog' = IF ~lim.admitted THEN winLog ELSE log_admitted(winLog, now)
        /\ UNCHANGED <<now, emails, validation, gmailVars, researchVars, detachedVars>>

\* The call gets as far as client.post(...)
posts_request(api_key, query) ==
    /\ rate_limit(now, request_count, last_request).admitted
    /\ ~is_placeholder(api_key)
    /\ sanitize_input(query, query_max_length) # <<>>

NoResponse == [kind |-> "none", status |-> 0, results |-> <<>>, answer |-> <<>>]

\* A call that ends before any request is posted: the other arguments and
\* the search service play no part in it.
SearchNoRequest ==
    \E api_key \in Keys, query \in Queries :
        /\ ~posts_request(api_key, query)
        /\ SearchCall(api_key, query, 10, TRUE, NoResponse)

\* A call that posts the request and handles the service's answer.
SearchRequest ==
    \E api_key \in Keys, query \in Queries :
        /\ posts_request(api_key, query)
        /\ \E max_results \in MaxResultsArgs, include_answer \in BOOLEAN,
              resp \in Responses :
                SearchCall(api_key, query, max_results, include_answer, resp)

\* The caller takes the result (or the exception) of the call; the next
\* call of this single cooperative caller can start.
SearchDone ==
    /\ call.made
    /\ call' = NoCall
    /\ outcome' = NoOutcome
    /\ UNCHANGED <<now, request_count, last_request, winLog,
                   emails, validation, gmailVars, researchVars, detachedVars>>

\* Time passes between calls.
Advance(steps, horizon) ==
    \E d \in steps :
        /\ ~call.made
        /\ now + d <= Epoch + horizon
        /\ now' = now + d
        /\ UNCHANGED <<request_count, last_request, call, outcome, winLog,
                       emails, validation, gmailVars, researchVars, detachedVars>>

(***************************************************************************)
(* The Research Agent's search_web and summarize_research                  *)
(***************************************************************************)
Has(r, key) == key \in DOMAIN r
\* seq[:n]
First_unlimited(seq, n) == seq
First(seq, n) == SubSeq(seq, 1, Min({n, Len(seq)}))
RECURSIVE Join(_)
\* "\n".join(lines)
Join(lines) ==
    IF lines = <<>> THEN <<>>
    ELSE IF Len(lines) = 1 THEN lines[1]
    ELSE lines[1] \o <<"\n">> \o Join(Tail(lines))

\* research_agent.py:85-100: the list the tool hands to the Research Agent,
\* from what search_web_tool returned or raised.
search_web(o) ==
    IF o.kind = "raised"
    THEN <<[error |-> <<"Search failed: ", o.exc>>]>>
    ELSE o.results

\* An optional argument: None, or the value given.
Absent == [given |-> FALSE, value |-> <<>>]
Given(v) == [given |-> TRUE, value |-> v]

NoResultsGiven ==
    <<"ERROR: No search results provided. You must first call search_web to get results, then pass those results to summarize_research.">>
EmptyResultsGiven == <<"No search results provided for summarization.">>
NoValidResults == <<"No valid search results available for summarization.">>
error_payload(text) == [summary |-> text, key_points |-> <<>>, sources |-> <<>>]

\* research_agent.py:264-329: the summary of a list that was given.
summarize_given(topic, value, focus_areas) ==
    IF value = <<>> THEN error_payload(EmptyResultsGiven)
    ELSE IF Len(value) = 1 /\ Has(value[1], "error")
    THEN error_payload(<<"Unable to summarize research due to search error: ">>
                       \o value[1].error)
    ELSE
    LET listed == SelectSeq(value,
                      LAMBDA r : ~Has(r, "error") /\ Has(r, "title") /\ Has(r, "url"))
        sources == [k \in 1..Len(listed) |->
                       <<"- ">> \o listed[k].title \o <<": ">> \o listed[k].url]
        described == SelectSeq(listed, LAMBDA r : Has(r, "content"))
        descriptions == [k \in 1..Len(described) |-> described[k].content]
        focus_text == IF focus_areas # <<>>
                      THEN <<"\nSpecific focus areas: ">> \o focus_areas ELSE <<>>
    IN  IF sources = <<>> THEN error_payload(NoValidResults)
        ELSE [summary |-> <<"\nResearch Summary: ">> \o topic \o focus_text
                          \o <<"\n\nKey Findings:\n">> \o Join(First(descriptions, 5))
                          \o <<"\n\nSources:\n">> \o Join(First(sources, 10))
                          \o <<"\n">>,
              topic |-> topic,
              sources_count |-> Len(sources),
              key_points |-> First(descriptions, 5)]

\* research_agent.py:256-262 and what follows: None is told apart from [].
summarize_research_none_as_empty(topic, results, focus_areas) ==
    summarize_given(topic, results.value, focus_areas)
summarize_research(topic, results, focus_areas) ==
    IF ~results.given THEN error_payload(NoResultsGiven)
    ELSE summarize_given(topic, results.value, focus_areas)

NoSummarized == [made |-> FALSE, topic |-> <<>>, search_results |-> Absent,
                 focus_areas |-> <<>>]
NoSummary == [summary |-> <<>>]

\* The arguments the model of the Research Agent can give.
AgentKeys == {<<>>, <<"tvly-key">>}
AgentQueries == {<<"a">>, <<"<", " ">>}
Topics == {<<"topic">>}
FocusAreas == {<<>>, <<"focus">>}
ErrorEntry == [error |-> <<"Search failed: ", "x">>]
TitleOnly == [title |-> <<"Doc C">>]
Undescribed == [title |-> <<"Doc D">>, url |-> <<"https://d.example">>]
\* Longer lists: error entries, entries without content and full entries
\* mixed, and full entries alone.
MaxGivenResults == 12
MixedEntry(i) ==
    CASE i % 4 = 0 -> ErrorEntry
      [] i % 4 = 3 -> Undescribed
      [] i % 4 = 2 -> DocB
      [] OTHER -> DocA
MixedList(n) == [i \in 1..n |-> MixedEntry(i)]
FullList(n) == [i \in 1..n |-> IF i % 3 = 0 THEN DocB ELSE DocA]
GivenResults ==
    {Absent, Given(<<>>), Given(search_results), Given(<<ErrorEntry>>),
     Given(<<TitleOnly>>), Given(<<ErrorEntry, Undescribed>>),
     Given(<<ErrorEntry, ErrorEntry>>)}
    \cup {Given(MixedList(n)) : n \in 2..MaxGivenResults}
    \cup {Given(FullList(n)) : n \in (MaxGivenResults - 2)..MaxGivenResults}

\* The Research Agent's search_web starts: the decorated search_web_tool runs
\* with the clamped max_results.
AgentSearchCall ==
    \E api_key \in AgentKeys, query \in AgentQueries,
       max_results \in MaxResultsArgs :
        /\ ~summarized.made
        /\ IF posts_request(api_key, query)
           THEN \E resp \in Responses :
                   SearchCall(api_key, query, clamp_max_results(max_results),
                              TRUE, resp)
           ELSE SearchCall(api_key, query, clamp_max_results(max_results), TRUE,
                           NoResponse)

\* search_web_tool has returned or raised: the tool returns its list.
AgentSearchReturn ==
    /\ call.made
    /\ search_results' = search_web(outcome)
    /\ searched' = TRUE
    /\ call' = NoCall
    /\ outcome' = NoOutcome
    /\ UNCHANGED <<now, request_count, last_request, winLog, emails, validation,
                   gmailVars, delegationVars, summarized, summary, detachedVars>>

\* One call of summarize_research.
Summarize ==
    \E topic \in Topics, results \in GivenResults, focus_areas \in FocusAreas :
        /\ ~summarized.made
        /\ ~call.made
        /\ summarized' = [made |-> TRUE, topic |-> topic,
                          search_results |-> results, focus_areas |-> focus_areas]
        /\ summary' = summarize_research(topic, results, focus_areas)
        /\ UNCHANGED <<now, searchAndValidateVars, gmailVars, delegationVars,
                       search_results, searched, detachedVars>>

\* The Research Agent takes the summary.
SummarizeDone ==
    /\ summarized.made
    /\ summarized' = NoSummarized
    /\ summary' = NoSummary
    /\ UNCHANGED <<now, searchAndValidateVars, gmailVars, delegationVars,
                   search_results, searched, detachedVars>>

(***************************************************************************)
(* Direct calls of sanitize_input                                          *)
(***************************************************************************)
Sanitize ==
    \E text \in Texts, max_length \in MaxLengths :
        /\ ~sanitizing.made
        /\ sanitizing' = [made |-> TRUE, text |-> text, max_length |-> max_length]
        /\ sanitized' = sanitize_input(text, max_length)
        /\ UNCHANGED <<now, searchAndValidateVars, gmailVars, researchVars, cliVars,
                       sessionVars>>

\* The caller takes the string.
SanitizeDone ==
    /\ sanitizing.made
    /\ sanitizing' = NoSanitizing
    /\ sanitized' = <<>>
    /\ UNCHANGED <<now, searchAndValidateVars, gmailVars, researchVars, cliVars,
                   sessionVars>>

SanitizeIdle == sanitizing = NoSanitizing /\ sanitized = <<>>

(***************************************************************************)
(* The console shell: StreamingCLI.stream_agent_interaction and clear      *)
(***************************************************************************)
MaxTurns == 3

ChatMessage(role, content) == [role |-> role, content |-> content]
KnownAgents == {"research_agent", "email_agent"}
AgentNames == KnownAgents \cup {"writer_agent"}
UserInputs == {<<"hello">>, <<"clear the table">>}

\* How agent.iter ends: run.result with an output, run.result None, or an
\* exception out of the run.
Runs ==
    {[kind |-> "returned", output |-> o, error |-> <<>>] :
        o \in {<<"an answer">>, <<>>, <<" ">>}}
    \cup {[kind |-> "no_result", output |-> <<>>, error |-> <<>>],
          [kind |-> "raised", output |-> <<>>, error |-> <<"model request failed">>]}
Streamed == {<<>>, <<"an ans">>}

NoResponse_generated == <<"No response generated">>
\* cli.py:165-178: the final output of a run that did not raise.
final_output(run, streamed_output) ==
    LET from_result ==
            IF run.kind = "returned" /\ run.output # <<>> THEN run.output
            ELSE IF run.kind = "returned" THEN <<"AgentRunResult(output=)">>
            ELSE NoResponse_generated
        or_streamed == IF from_result = <<>> THEN streamed_output ELSE from_result
    IN  IF strip(or_streamed) = <<>> THEN NoResponse_generated ELSE or_streamed

error_msg(e) == <<"Error during agent execution: ">> \o e

\* cli.py:68-70 and 181-193: the messages one interaction appends.
interaction_messages_dropping_error(user_input, run, streamed_output) ==
    <<ChatMessage("user", user_input)>>
    \o (IF run.kind = "raised" THEN <<>>
        ELSE <<ChatMessage("assistant", final_output(run, streamed_output))>>)
interaction_messages(user_input, run, streamed_output) ==
    <<ChatMessage("user", user_input),
      ChatMessage("assistant",
                  IF run.kind = "raised" THEN error_msg(run.error)
                  ELSE final_output(run, streamed_output))>>

\* One call of stream_agent_interaction; an unknown agent name raises
\* ValueError before anything is appended.
Interact ==
    \E user_input \in UserInputs, agent_name \in AgentNames, run \in Runs,
       streamed_output \in Streamed :
        /\ Len(turns) < MaxTurns
        /\ IF agent_name \in KnownAgents
           THEN /\ messages' = messages
                        \o interaction_messages(user_input, run, streamed_output)
                /\ turns' = Append(turns, [user_input |-> user_input, run |-> run])
           ELSE UNCHANGED <<messages, turns>>
        /\ UNCHANGED <<now, searchAndValidateVars, gmailVars, researchVars,
                       sanitizeVars, sessionVars>>

\* The clear command of chat().
Clear ==
    /\ messages' = <<>>
    /\ turns' = <<>>
    /\ UNCHANGED <<now, searchAndValidateVars, gmailVars, researchVars,
                   sanitizeVars, sessionVars>>

CliIdle == messages = <<>> /\ turns = <<>>

(***************************************************************************)
(* Concurrent sessions in rate_limit's wrapper                             *)
(*                                                                         *)
(* The sessions of the process are tasks of one event loop.  A task runs   *)
(* until it awaits; the wrapper awaits only at "return await func(...)".   *)
(* Its positions: idle, count (the check of lines 37-48 passed, line 51    *)
(* is next), call (awaiting the wrapped function).                         *)
(***************************************************************************)
MaxSessions == 2
Sessions == 1..MaxSessions

\* Whether a task reaching the position gives the event loop to other tasks.
suspends_at_every(position) == TRUE
suspends_at(position) == position \in {"call", "idle"}

after_step(s, position) == IF suspends_at(position) THEN 0 ELSE s

\* tools.py:37-48 for session s: the time is read, the counter reset if the
\* window has passed, and the call rejected if the quota is used up.
WrapperCheck(s) ==
    LET reset == window_passed(now, last_request)
        count == IF reset THEN 0 ELSE request_count
        admitted == ~limit_exceeded(count)
        position == IF admitted THEN "count" ELSE "idle"
        opens == winLog = <<>> \/ now - winLog[1] > window
    IN  /\ running = 0
        /\ wrapper_at[s] = "idle"
        /\ request_count' = count
        /\ last_request' = IF reset THEN now ELSE last_request
        /\ wrapper_at' = [wrapper_at EXCEPT ![s] = position]
        /\ running' = after_step(s, position)
        /\ winLog' = IF admitted THEN log_admitted(winLog, now) ELSE winLog
        /\ admitted_by' =
              IF ~admitted THEN admitted_by
              ELSE [t \in Sessions |->
                       (IF opens THEN 0 ELSE admitted_by[t])
                       + (IF t = s THEN 1 ELSE 0)]
        /\ UNCHANGED <<now, call, outcome, emails, validation, gmailVars,
                       researchVars, sanitizeVars, cliVars>>

\* tools.py:51 for session s, then the wrapped function is awaited.
WrapperCount(s) ==
    /\ running \in {0, s}
    /\ wrapper_at[s] = "count"
    /\ request_count' = request_count + 1
    /\ wrapper_at' = [wrapper_at EXCEPT ![s] = "call"]
    /\ running' = after_step(s, "call")
    /\ UNCHANGED <<now, last_request, call, outcome, winLog, emails, validation,
                   admitted_by, gmailVars, researchVars, sanitizeVars, cliVars>>

\* The wrapped function of session s returns or raises.
WrapperReturn(s) ==
    /\ running = 0
    /\ wrapper_at[s] = "call"
    /\ wrapper_at' = [wrapper_at EXCEPT ![s] = "idle"]
    /\ UNCHANGED <<now, searchAndValidateVars, running, admitted_by, gmailVars,
                   researchVars, sanitizeVars, cliVars>>

SessionsIdle ==
    /\ wrapper_at = [s \in Sessions |-> "idle"]
    /\ running = 0
    /\ admitted_by = [s \in Sessions |-> 0]

ResearchIdle ==
    /\ rop = "none"
    /\ rpc = "idle"
    /\ nested = NoNested
    /\ delegation = NoDelegation
    /\ email_draft = NoEmailDraft
    /\ search_results = <<>>
    /\ searched = FALSE
    /\ summarized = NoSummarized
    /\ summary = NoSummary

GmailIdle ==
    /\ op = "none"
    /\ pc = "idle"
    /\ attempt = 0
    /\ authenticated = "none"
    /\ token_before = AbsentToken
    /\ trace = <<>>
    /\ slept = 0
    /\ args = NoArgs
    /\ drafts = <<>>
    /\ result = NoResult

Init ==
    /\ now = Epoch
    /\ request_count = 0
    /\ last_request = 0
    /\ call = NoCall
    /\ outcome = NoOutcome
    /\ winLog = <<>>
    /\ emails = <<>>
    /\ validation = NoValidation
    /\ credentials_exists = TRUE
    /\ token_file = AbsentToken
    /\ GmailIdle
    /\ ResearchIdle
    /\ SanitizeIdle
    /\ CliIdle
    /\ SessionsIdle

\* The search client: every kind of call, the clock jumping past the window.
TickSearch == Advance({61}, SearchHorizon)
NextSearch == SearchNoRequest \/ SearchRequest \/ SearchDone \/ TickSearch
SpecSearch == Init /\ [][NextSearch]_vars

\* The rate limiter: calls that post nothing, the clock in finer steps.
LimiterCall ==
    \E query \in {<<"a">>} : SearchCall(<<>>, query, 10, TRUE, NoResponse)
TickLimiter == Advance({30, 61}, LimiterHorizon)
NextLimiter == LimiterCall \/ SearchDone \/ TickLimiter
SpecLimiter == Init /\ [][NextLimiter]_vars

\* The Gmail side: the credentials file there or not, any token file.
InitGmail ==
    /\ now = Epoch
    /\ request_count = 0
    /\ last_request = 0
    /\ call = NoCall
    /\ outcome = NoOutcome
    /\ winLog = <<>>
    /\ emails = <<>>
    /\ validation = NoValidation
    /\ credentials_exists \in BOOLEAN
    /\ token_file \in TokenFiles
    /\ GmailIdle
    /\ ResearchIdle
    /\ SanitizeIdle
    /\ CliIdle
    /\ SessionsIdle
NextGmail ==
    \/ CallAuthenticate
    \/ CallDraftTool
    \/ CallDraftToolPatched
    \/ CallCreateGmailDraft
    \/ AuthAttempt
    \/ DraftCreate
    \/ GmailDone
SpecGmail == InitGmail /\ [][NextGmail]_vars

\* The Research Agent's search and summary tools over the shared limiter,
\* all calls of the run falling in one window.
NextResearch ==
    \/ AgentSearchCall
    \/ AgentSearchReturn
    \/ Summarize
    \/ SummarizeDone
SpecResearch == Init /\ [][NextResearch]_vars

\* sanitize_input on its own, over every short text.
NextSanitize == Sanitize \/ SanitizeDone
SpecSanitize == Init /\ [][NextSanitize]_vars

\* The console session: interactions and clear commands in any order.
NextCli == Interact \/ Clear
SpecCli == Init /\ [][NextCli]_vars

\* Delegation: the Research Agent's tool, the nested Email Agent run and the
\* Gmail calls made inside it.
NextDelegate ==
    \/ CallDelegate
    \/ CallCreateEmailDraft
    \/ NestedToolCall
    \/ AuthAttempt
    \/ DraftCreate
    \/ NestedToolReturn
    \/ NestedRunEnds
    \/ ResearchDone
SpecDelegate == InitGmail /\ [][NextDelegate]_vars

\* Each library call of an attempt returns or raises, and time.sleep
\* returns: a running retry loop takes its next pass.
SpecGmailLive == SpecGmail /\ WF_vars(AuthAttempt) /\ WF_vars(DraftCreate)

\* The response handling on long result lists: a real key, one query, each
\* call answered with status 200 and up to MaxResponseResults results.
MaxResponseResults == 20
ResultLists ==
    {[i \in 1..n |-> IF i % p = 0 THEN DocB ELSE DocA] :
        n \in 0..MaxResponseResults, p \in {1, 2, 3}}
LongResponses ==
    {[kind |-> "status", status |-> 200, results |-> r, answer |-> a] :
        r \in ResultLists, a \in Answers}
ResultsCall ==
    \E include_answer \in BOOLEAN, resp \in LongResponses :
        SearchCall(<<"tvly-key">>, <<"a">>, 20, include_answer, resp)
NextResults == ResultsCall \/ SearchDone
SpecResults == Init /\ [][NextResults]_vars

\* Several sessions calling the decorated function, the clock jumping past
\* the window while no task is running.
SessionCheck == \E s \in Sessions : WrapperCheck(s)
SessionCount == \E s \in Sessions : WrapperCount(s)
SessionReturn == \E s \in Sessions : WrapperReturn(s)
TickSessions == running = 0 /\ Advance({61}, SearchHorizon)
NextSessions == SessionCheck \/ SessionCount \/ SessionReturn \/ TickSessions
SpecSessions == Init /\ [][NextSessions]_vars

\* The email validator: one list after the other.
NextValidate == Validate \/ ValidateDone
SpecValidate == Init /\ [][NextValidate]_vars

(***************************************************************************)
(* Claims about the search client (SpecSearch).                            *)
(***************************************************************************)
Sanitized(query) == sanitize_input(query, query_max_length)
IsMockList(results) ==
    /\ Len(results) = 4
    /\ <<results[1].score, results[2].score, results[3].score>> = <<90, 80, 70>>
    /\ results[4].title = AISummaryTitle
    /\ results[4].score = 95
    /\ \A i \in 1..3 : results[i].title # AISummaryTitle

C2_PlaceholderKeyReturnsMock ==
    call.made /\ is_placeholder(call.api_key) =>
        /\ outcome.kind = "returned"
        /\ IsMockList(outcome.results)
        /\ outcome.request = NoRequest

\* C3: a call that posted its request and got status 401, 429, another
\* status but 200, or a network error, does not raise and returns the mock
\* list, which holds an "AI Summary" entry.
RequestFailed ==
    /\ call.made
    /\ ~is_placeholder(call.api_key)
    /\ Sanitized(call.query) # <<>>
    /\ outcome.response # <<>>
    /\ ~(outcome.response[1].kind = "status" /\ outcome.response[1].status = 200)
C4_EmptyQueryFailsEmptyKeyMocks ==
    call.made =>
        /\ ~is_placeholder(call.api_key) /\ Sanitized(call.query) = <<>> =>
              /\ outcome.kind = "raised"
              /\ outcome.exc = EmptyQueryError
              /\ outcome.request = NoRequest
        /\ call.api_key = <<>> /\ Sanitized(call.query) # <<>> =>
              /\ outcome.kind = "returned"
              /\ IsMockList(outcome.results)

(***************************************************************************)
(* Claims about the rate limiter (SpecLimiter).                            *)
(***************************************************************************)
CallStep == ~call.made /\ call'.made
Admitted == outcome'.kind # "raised" \/ outcome'.exc # RateLimitError

\* C5: once max_requests calls were admitted in a window, every further call
\* in that window is rejected; the first call more than window seconds after
\* the last admitted call is admitted, the counter restarting from zero.
C5_WindowQuota ==
    [][CallStep =>
        /\ Len(winLog) = max_requests /\ now - winLog[1] <= window =>
              /\ outcome'.kind = "raised"
              /\ outcome'.exc = RateLimitError
        /\ winLog # <<>> /\ now - winLog[Len(winLog)] > window =>
              /\ Admitted
              /\ request_count' = 1]_vars

\* The 11th call exactly window seconds after the window opened is rejected.
C5_Witness ==
    /\ call.made
    /\ outcome.exc = RateLimitError
    /\ Len(winLog) = max_requests
    /\ now - winLog[1] = window

\* C6 (as stated): every admitted call adds one to request_count and sets
\* last_request to the time of the call; the counter is reset exactly when
\* the time since last_request exceeds the window.
C6_AdmittedSetsLastRequest ==
    [][CallStep /\ Admitted =>
        /\ request_count' = (IF now - last_request > window THEN 0
                             ELSE request_count) + 1
        /\ last_request' = now]_vars

\* C6 (amended): every admitted call leaves request_count one above its
\* value after the reset check (0 if the time since last_request exceeds the
\* window, else its old value); last_request is set to the time of the call
\* only by a call that resets the counter and is otherwise left alone; a
\* rejected call changes neither.
C6_AdmittedCountsWindowStart ==
    [][CallStep =>
        LET reset == now - last_request > window
        IN  /\ Admitted =>
                  /\ request_count' = (IF reset THEN 0 ELSE request_count) + 1
                  /\ last_request' = (IF reset THEN now ELSE last_request)
            /\ ~Admitted =>
                  /\ ~reset
                  /\ request_count' = request_count
                  /\ last_request' = last_request]_vars

\* An admitted call that did not reset the counter: last_request still holds
\* the time the window opened, before the call.
C6_Witness ==
    /\ call.made
    /\ outcome.kind = "returned"
    /\ request_count > 1
    /\ last_request < call.time

(***************************************************************************)
(* Claims about the email validator (SpecValidate).                        *)
(***************************************************************************)
Occurs(list, a) == \E k \in 1..Len(list) : list[k] = a
Occurrences(list, a) == Cardinality({k \in 1..Len(list) : list[k] = a})
\* list is what is left of whole after dropping entries, the order kept
KeepsOrderOf(list, whole) ==
    \E f \in [1..Len(list) -> 1..Len(whole)] :
        /\ \A k \in 1..Len(list) : list[k] = whole[f[k]]
        /\ \A k \in 1..(Len(list) - 1) : f[k] < f[k + 1]
InOneListOnly(a) ==
    Cardinality({l \in {"valid_emails", "invalid_emails", "suspicious_emails"} :
                    Occurs(validation[l], a)}) = 1
TotalsMatch ==
    /\ validation.total_valid = Len(validation.valid_emails)
    /\ validation.total_invalid = Len(validation.invalid_emails)
    /\ validation.total_suspicious = Len(validation.suspicious_emails)
    /\ validation.total_valid + validation.total_invalid
           + validation.total_suspicious = Len(emails)

\* C7 (as stated): each input address appears in exactly one of the three
\* lists, each list keeps the order of the input, the totals are the lengths
\* of the lists and sum to the length of the input.
C7_InputInOneList ==
    validation.made =>
        /\ \A i \in 1..Len(emails) : InOneListOnly(emails[i])
        /\ KeepsOrderOf(validation.valid_emails, emails)
        /\ KeepsOrderOf(validation.invalid_emails, emails)
        /\ KeepsOrderOf(validation.suspicious_emails, emails)
        /\ TotalsMatch

\* C7 (amended): the sanitized form of each input address (the removed
\* characters dropped, cut to 254 characters, stripped) appears in exactly
\* one of the three lists, as often in the lists as in the input; each list
\* keeps the order of the input; the totals are the lengths of the lists and
\* sum to the length of the input.
SanitizedEmails ==
    [i \in 1..Len(emails) |-> sanitize_input(emails[i], max_email_length)]
C7_SanitizedInOneList ==
    validation.made =>
        /\ \A i \in 1..Len(emails) :
              /\ InOneListOnly(SanitizedEmails[i])
              /\ Occurrences(validation.valid_emails, SanitizedEmails[i])
                 + Occurrences(validation.invalid_emails, SanitizedEmails[i])
                 + Occurrences(validation.suspicious_emails, SanitizedEmails[i])
                 = Occurrences(SanitizedEmails, SanitizedEmails[i])
        /\ KeepsOrderOf(validation.valid_emails, SanitizedEmails)
        /\ KeepsOrderOf(validation.invalid_emails, SanitizedEmails)
        /\ KeepsOrderOf(validation.suspicious_emails, SanitizedEmails)
        /\ TotalsMatch

\* Two addresses that sanitization changes, one valid and listed second, one
\* suspicious: the lists hold the sanitized forms, not the inputs.
C7_Witness ==
    /\ validation.made
    /\ Len(emails) = 2
    /\ emails[2] # SanitizedEmails[2]
    /\ validation.valid_emails = <<SanitizedEmails[2]>>
    /\ validation.total_suspicious = 1

\* C8: every address longer than 254 characters (or whose domain part is
\* longer than 253) is classified invalid, never valid or suspicious.
TooLong(a) ==
    \/ Len(a) > max_email_length
    \/ Occurs(a, "@") /\ Len(domain_of(a)) > max_domain_length
C8_TooLongIsInvalid ==
    validation.made =>
        \A i \in 1..Len(emails) :
            TooLong(emails[i]) =>
                /\ Occurs(validation.invalid_emails, SanitizedEmails[i])
                /\ ~Occurs(validation.valid_emails, SanitizedEmails[i])
                /\ ~Occurs(validation.suspicious_emails, SanitizedEmails[i])

(***************************************************************************)
(* Claims about the Gmail side (SpecGmail).                                *)
(***************************************************************************)
Did(event) == \E k \in 1..Len(trace) : trace[k] = event
Classes(list) ==
    {classify(sanitize_input(list[k], max_email_length)) : k \in 1..Len(list)}
HasInvalidRecipient ==
    "invalid" \in Classes(args.to) \cup Classes(args.cc) \cup Classes(args.bcc)

\* C9: create_gmail_draft called with an invalid address in to, cc or bcc
\* returns success false with the valid and the invalid addresses, and the
\* call performs neither Gmail authentication nor a drafts-create request.
C9_InvalidRecipientStopsDraft ==
    op = "create_gmail_draft" /\ HasInvalidRecipient =>
        /\ pc = "done"
        /\ result.kind = "returned"
        /\ ~result.success
        /\ result.valid_emails = validate_email_addresses_tool(args.to).valid_emails
        /\ result.invalid_emails =
              validate_email_addresses_tool(args.to \o args.cc \o args.bcc).invalid_emails
        /\ result.invalid_emails # <<>>
        /\ ~Did("authenticate") /\ ~Did("attempt") /\ ~Did("drafts_create")
        /\ drafts = <<>>

\* A valid to address and an invalid one in bcc only.
C9_Witness ==
    /\ op = "create_gmail_draft"
    /\ pc = "done"
    /\ Classes(args.to) = {"valid"}
    /\ args.cc = <<>>
    /\ "invalid" \in Classes(args.bcc)
    /\ ~result.success

\* C10: without the credentials file authenticate_gmail_tool fails on entry:
\* no attempt starts, nothing is slept, the token file is neither read,
\* written nor deleted, and the error names the missing credentials file.
C10_MissingCredentialsFailsAtOnce ==
    [][pc = "idle" /\ op' = "authenticate_gmail_tool" /\ ~credentials_exists =>
        /\ pc' = "done"
        /\ result'.kind = "raised"
        /\ result'.error = CredentialsNotFound
        /\ trace' = <<"authenticate">>
        /\ slept' = 0
        /\ attempt' = 0
        /\ token_file' = token_file]_vars

\* The call has ended with the credentials-file error, a token file in place.
C10_Witness ==
    /\ op = "authenticate_gmail_tool"
    /\ pc = "done"
    /\ ~credentials_exists
    /\ token_file.stored
    /\ result.error = CredentialsNotFound

Count(event) == Cardinality({k \in 1..Len(trace) : trace[k] = event})

\* What holds of a call of authenticate_gmail_tool with the credentials
\* file in place, at every point of it.
C11_RetryShape ==
    op = "authenticate_gmail_tool" /\ credentials_exists /\ pc # "idle" =>
        /\ Count("attempt") <= 3
        /\ slept = retry_delay * Count("sleep")
        /\ pc = "auth" =>
              /\ Count("attempt") < 3
              /\ Count("sleep") = Count("attempt")
              /\ result = NoResult
        /\ pc = "done" =>
              \/ /\ result = ReturnedOk
                 /\ Count("attempt") >= 1
                 /\ Count("sleep") = Count("attempt") - 1
              \/ /\ result = RaisedError(AuthenticationFailed)
                 /\ Count("attempt") = 3
                 /\ Count("sleep") = 2
        /\ \A k \in 1..Len(trace) :
              trace[k] = "sleep" /\ k < Len(trace) => trace[k + 1] = "attempt"

\* C11: with the credentials file in place authenticate_gmail_tool makes at
\* most 3 attempts, returns success at the first attempt that succeeds,
\* sleeps the fixed delay after each failed attempt but the third, raises the
\* authentication error naming 3 attempts only after the third failure, and
\* (each external step returning) always ends in success or in that error.
C11_ThreeAttemptsThenError ==
    /\ []C11_RetryShape
    /\ (pc = "auth") ~> (pc # "auth")
    /\ (op = "authenticate_gmail_tool" /\ pc = "auth") ~> (pc = "done")

\* Two attempts failed, each followed by the delay, and the third succeeded.
C11_Witness ==
    /\ op = "authenticate_gmail_tool"
    /\ pc = "done"
    /\ result = ReturnedOk
    /\ Count("attempt") = 3
    /\ slept = 2 * retry_delay

\* The events the step appends to the history of the running call.
NewEvents == SubSeq(trace', Len(trace) + 1, Len(trace'))
Before(events, a, b) ==
    \E i, j \in 1..Len(events) : i < j /\ events[i] = a /\ events[j] = b
\* The step is an attempt of the retry loop that returns success.
AttemptReturnsSuccess ==
    /\ pc = "auth"
    /\ \/ pc' = "draft"
       \/ pc' = "done" /\ result' = ReturnedOk
Unusable(token) ==
    \/ ~token.stored
    \/ /\ ~token.creds.valid
       /\ ~(token.creds.expired /\ token.creds.refresh_token)

\* C12: an attempt that starts with no usable token (no token file, or a
\* loaded token that is not valid and is not expired or has no refresh
\* token) returns success only after the consent flow has run and the token
\* of the flow has been written to token_path.
C12_UnusableTokenRunsFlow ==
    [][AttemptReturnsSuccess /\ Unusable(token_file) =>
          /\ Before(NewEvents, "flow", "write_token")
          /\ token_file' = Stored(FreshCreds)]_vars

\* C13: an attempt that loads a token which is expired and has a refresh
\* token refreshes first.  If the refresh fails the token file is deleted and
\* the consent flow runs in the same attempt, the token of the flow being
\* written to token_path; if the refresh succeeds the refreshed token is
\* written and no flow runs.
C13_RefreshFirstThenFlow ==
    pc = "auth" /\ token_file.stored /\ token_file.creds.expired
                /\ token_file.creds.refresh_token =>
        \A env \in AttemptEnvs : env.load = "ok" =>
            LET r == auth_attempt(token_file, env)
                n == Len(r.events)
            IN  /\ n >= 2 /\ r.events[1] = "load_token" /\ r.events[2] = "refresh"
                /\ env.refresh = "raises" =>
                      /\ n >= 4 /\ r.events[3] = "delete_token" /\ r.events[4] = "flow"
                      /\ env.flow = "raises" => n = 4
                      /\ env.flow = "ok" => n = 5 /\ r.events[5] = "write_token"
                      /\ IF env.flow = "ok" /\ env.write = "ok"
                         THEN r.ok /\ r.token = Stored(FreshCreds)
                         ELSE ~r.ok /\ r.token = AbsentToken
                /\ env.refresh = "ok" =>
                      /\ r.events = <<"load_token", "refresh", "write_token">>
                      /\ IF env.write = "ok"
                         THEN r.ok /\ r.token = Stored(Refreshed(token_file.creds))
                         ELSE ~r.ok /\ r.token = token_file

\* A call whose first attempt found an expired token, failed to refresh it,
\* deleted the file, ran the flow and stored its token.
C13_Witness ==
    /\ pc = "done"
    /\ result = ReturnedOk
    /\ trace = <<"authenticate", "attempt", "load_token", "refresh",
                 "delete_token", "flow", "write_token">>
    /\ token_file = Stored(FreshCreds)

Failed(r) == r.kind = "raised" \/ (r.kind = "returned" /\ ~r.success)

\* C14: a create_gmail_draft_tool call authenticates first and issues the
\* drafts-create request at most once, only after authentication returned
\* success; when authentication raises or reports success false no request
\* is issued and the call fails; a failing request is not retried and makes
\* the call fail.
C14_DraftOnlyAfterAuthentication ==
    op \in {"create_gmail_draft_tool", "create_gmail_draft"}
            /\ Did("authenticate") =>
        /\ Len(drafts) <= 1
        /\ Count("drafts_create") = Len(drafts)
        /\ Did("drafts_create") =>
              /\ authenticated = "success"
              /\ Before(trace, "authenticate", "drafts_create")
        /\ authenticated \in {"raised", "failure"} =>
              /\ drafts = <<>>
              /\ pc = "done"
              /\ Failed(result)
              /\ op = "create_gmail_draft_tool" => result.kind = "raised"
        /\ drafts # <<>> /\ drafts[1].answer = "raises" =>
              /\ pc = "done"
              /\ Failed(result)
              /\ op = "create_gmail_draft_tool" => result.kind = "raised"
        /\ pc = "done" /\ ~Failed(result) =>
              Len(drafts) = 1 /\ drafts[1].answer = "ok"

\* Authentication returned success, the one request was issued and failed.
C14_Witness ==
    /\ op = "create_gmail_draft_tool"
    /\ pc = "done"
    /\ authenticated = "success"
    /\ Len(drafts) = 1
    /\ drafts[1].answer = "raises"
    /\ result.kind = "raised"

(***************************************************************************)
(* Claims about delegation (SpecDelegate).                                 *)
(***************************************************************************)
\* C15: every call of delegate_to_email_agent returns one
\* AgentDelegationResponse and never raises; success is false exactly when
\* the nested Email Agent run raised, agent_response then carrying the
\* failure reason and otherwise the output of the run; target_agent is
\* always "email_agent".
C15_DelegationResponse ==
    /\ rpc = "done" =>
          /\ delegation.made
          /\ nested.ended \in {"returned", "raised"}
          /\ delegation.target_agent = "email_agent"
          /\ ~delegation.success <=> nested.ended = "raised"
          /\ nested.ended = "raised" =>
                \E e \in RunErrors :
                    /\ nested.error = e
                    /\ delegation.agent_response = <<"Delegation failed: ">> \o e
          /\ nested.ended = "returned" =>
                /\ delegation.agent_response = nested.output
                /\ nested.output \in RunOutputs
    /\ rpc # "done" => ~delegation.made

\* The nested run returned after a create_gmail_draft call of its own that
\* failed, and the delegation reports success.
C15_Witness ==
    /\ rop = "delegate_to_email_agent"
    /\ rpc = "done"
    /\ nested.ended = "returned"
    /\ Len(nested.tool_results) = 1
    /\ ~nested.tool_results[1].success
    /\ delegation.success

\* The Email Agent's create_gmail_draft ended with the authentication error
\* of the exhausted retry loop.
AuthenticationExhausted(r) == r.error = DraftFailed(AuthenticationFailed)

\* C20: when Gmail authentication has failed for good while a draft was being
\* created for create_email_draft, create_gmail_draft returned success false
\* and the dictionary create_email_draft returns has success false.
C20_AuthFailureSurfaces ==
    rop = "create_email_draft" /\ rpc = "done" =>
        \A k \in 1..Len(nested.tool_results) :
            AuthenticationExhausted(nested.tool_results[k]) =>
                /\ nested.tool_results[k].kind = "returned"
                /\ ~nested.tool_results[k].success
                /\ email_draft.made
                /\ ~email_draft.success

(***************************************************************************)
(* Claims about the Research Agent's tools (SpecResearch).                 *)
(***************************************************************************)
\* C16: summarize_research called without search results never raises and
\* returns a payload whose summary is the error message telling the caller
\* to call search_web first, with empty key_points and empty sources,
\* whether or not search_web was called earlier in the run.
C16_NoResultsGivesErrorPayload ==
    summarized.made /\ ~summarized.search_results.given =>
        /\ DOMAIN summary = {"summary", "key_points", "sources"}
        /\ summary.summary = NoResultsGiven
        /\ summary.key_points = <<>>
        /\ summary.sources = <<>>

\* The call comes after a search_web call that returned results.
C16_Witness ==
    /\ summarized.made
    /\ ~summarized.search_results.given
    /\ searched
    /\ search_results # <<>>
    /\ ~Has(search_results[1], "error")
    /\ summary.summary = NoResultsGiven

IsResultEntry(r) == {"title", "url", "content", "score"} \subseteq DOMAIN r
\* The step is the return of a search_web call of the Research Agent.
SearchWebReturns == call.made /\ ~call'.made

\* C17: a search_web call of the Research Agent whose query is not empty
\* after sanitization returns at least one real or mock result entry, never
\* a list holding only an error entry, whatever the search service answers
\* and however many calls came before.
C17_SearchAlwaysGivesResults ==
    [][SearchWebReturns /\ Sanitized(call.query) # <<>> =>
          /\ \E k \in 1..Len(search_results') : IsResultEntry(search_results'[k])
          /\ ~(Len(search_results') = 1 /\ Has(search_results'[1], "error"))]_vars

\* C17, its second half alone: such a call never returns a list holding
\* only an error entry.
C17_NeverOnlyAnError ==
    [][SearchWebReturns /\ Sanitized(call.query) # <<>> =>
          ~(Len(search_results') = 1 /\ Has(search_results'[1], "error"))]_vars

(***************************************************************************)
(* Claims about sanitize_input (SpecSanitize).                             *)
(***************************************************************************)
Unsafe == {"<", ">", "\"", "'", "\\"}
Blank == {" ", "\t", "\n"}
WithoutUnsafe(text) == SelectSeq(text, LAMBDA c : c \notin Unsafe)
CutTo(text, n) == SubSeq(text, 1, IF Len(text) > n THEN n ELSE Len(text))
\* t is s without its leading and trailing blanks.
IsTrimOf(t, s) ==
    /\ t = <<>> \/ (t[1] \notin Blank /\ t[Len(t)] \notin Blank)
    /\ \E lead, trail \in 0..Len(s) :
          /\ lead + Len(t) + trail = Len(s)
          /\ \A i \in 1..lead : s[i] \in Blank
          /\ \A i \in 1..Len(t) : s[lead + i] = t[i]
          /\ \A i \in 1..trail : s[lead + Len(t) + i] \in Blank

\* C18 (as stated): the result is the text with every < > " ' \ removed and
\* then cut to its first max_length characters, nothing else changed; it
\* holds none of those characters and is never longer than max_length; the
\* empty text gives the empty string.
C18_RemovedAndCutOnly ==
    sanitizing.made =>
        /\ sanitized = CutTo(WithoutUnsafe(sanitizing.text), sanitizing.max_length)
        /\ \A i \in 1..Len(sanitized) : sanitized[i] \notin Unsafe
        /\ Len(sanitized) <= sanitizing.max_length
        /\ sanitizing.text = <<>> => sanitized = <<>>

\* C18 (amended): the result is the text with every < > " ' \ removed, then
\* cut to its first max_length characters, then without its leading and
\* trailing whitespace, nothing else changed; it holds none of those
\* characters and is never longer than max_length; the empty text gives the
\* empty string.
C18_RemovedCutAndStripped ==
    sanitizing.made =>
        /\ IsTrimOf(sanitized,
                    CutTo(WithoutUnsafe(sanitizing.text), sanitizing.max_length))
        /\ \A i \in 1..Len(sanitized) : sanitized[i] \notin Unsafe
        /\ Len(sanitized) <= sanitizing.max_length
        /\ sanitizing.text = <<>> => sanitized = <<>>

\* A text with a leading blank and a removed character, longer than the
\* limit after the removal.
C18_Witness ==
    /\ sanitizing.made
    /\ sanitizing.text = <<" ", "<", "a", "a">>
    /\ sanitizing.max_length = 2
    /\ sanitized = <<"a">>

(***************************************************************************)
(* Claims about the console session (SpecCli).                             *)
(***************************************************************************)
\* The history is the user/assistant pairs of the completed interactions,
\* in call order.
C19_Pairs ==
    /\ Len(messages) = 2 * Len(turns)
    /\ \A k \in 1..Len(turns) :
          LET user == messages[2 * k - 1]
              assistant == messages[2 * k]
              run == turns[k].run
          IN  /\ user = [role |-> "user", content |-> turns[k].user_input]
              /\ assistant.role = "assistant"
              /\ assistant.content # <<>>
              /\ run.kind = "raised" =>
                    assistant.content
                        = <<"Error during agent execution: ">> \o run.error
              /\ run.kind = "returned" /\ run.output \notin {<<>>, <<" ">>} =>
                    assistant.content = run.output

\* A step that changes the history appends one user and one assistant
\* message to it, or removes all of it.
C19_AppendOrClear ==
    messages' # messages =>
        \/ /\ Len(messages') = Len(messages) + 2
           /\ SubSeq(messages', 1, Len(messages)) = messages
           /\ messages'[Len(messages) + 1].role = "user"
           /\ messages'[Len(messages) + 2].role = "assistant"
        \/ messages' = <<>>

\* C19: after any sequence of stream_agent_interaction calls with a known
\* agent name and of clear commands, the history is the sequence of
\* user/assistant pairs of the calls in order, each call having appended its
\* user message and then one assistant message (the final output, or the
\* error text when the run raised); only clear removes messages, all of them.
C19_HistoryOfPairs == []C19_Pairs /\ [][C19_AppendOrClear]_vars

\* Two interactions since the last clear, the second with a run that raised.
C19_Witness ==
    /\ Len(turns) = 2
    /\ turns[1].run.kind = "returned"
    /\ turns[2].run.kind = "raised"
    /\ messages[4].content = <<"Error during agent execution: ">> \o turns[2].run.error

(***************************************************************************)
(* Claims about the token file during authentication (SpecGmail).          *)
(***************************************************************************)
HeldValid(token) == token.stored /\ token.creds.valid
FirstAttemptSucceeded ==
    /\ result = ReturnedOk
    /\ trace = <<"authenticate", "attempt", "load_token">>

\* C21 (as stated): a call of authenticate_gmail_tool that found a valid
\* credential in the token file returns success on its first attempt; it
\* performs no refresh, no consent flow, no write and no deletion of the
\* token file.
C21_ValidTokenSucceedsAtOnce ==
    op = "authenticate_gmail_tool" /\ pc = "done" /\ HeldValid(token_before) =>
        /\ FirstAttemptSucceeded
        /\ token_file = token_before

\* C21 (amended): with the credentials file in place, a call that found a
\* valid credential in the token file performs no refresh, no consent flow,
\* no write and no deletion of the token file; every attempt that reads the
\* token file succeeds having done nothing but read it, so the call returns
\* success on its first attempt unless reading the file raised.
C21_ReadableValidTokenSucceedsAtOnce ==
    op = "authenticate_gmail_tool" /\ pc # "idle" /\ credentials_exists
            /\ HeldValid(token_before) =>
        /\ token_file = token_before
        /\ \A e \in {"refresh", "flow", "write_token", "delete_token"} : ~Did(e)
        /\ pc = "auth" =>
              \A env \in AttemptEnvs : env.load = "ok" =>
                  auth_attempt(token_file, env)
                      = AttemptSucceeded(token_file, <<"load_token">>,
                                         token_file.creds)
        /\ pc = "done" =>
              \/ FirstAttemptSucceeded
              \/ Len(trace) >= 4 /\ trace[4] = "sleep"
        /\ pc = "done" /\ result # ReturnedOk =>
              /\ result = RaisedError(AuthenticationFailed)
              /\ Count("load_token") = 3

\* The call found a valid credential and returned at its first attempt.
C21_Witness ==
    /\ op = "authenticate_gmail_tool"
    /\ pc = "done"
    /\ credentials_exists
    /\ HeldValid(token_before)
    /\ FirstAttemptSucceeded
    /\ token_file = token_before

(***************************************************************************)
(* Claims about the handling of a 200 response (SpecResults).              *)
(***************************************************************************)
\* The call posted its request and the service answered with status 200.
Answered200 ==
    /\ call.made
    /\ outcome.response # <<>>
    /\ outcome.response[1].kind = "status"
    /\ outcome.response[1].status = 200

\* C22: on a 200 response with n results the call returns the n results in
\* response order, the result at index i (from 0) scored max(0.1, 1 - 0.05 i),
\* the scores of these entries non-increasing and within [0.1, 1.0]; when
\* include_answer is true and the answer is not empty one "AI Summary" entry
\* with score 0.95 and an empty url follows as the last entry, and otherwise
\* no entry is added.
C22_ScoredInResponseOrder ==
    Answered200 =>
        LET resp == outcome.response[1]
            n == Len(resp.results)
            out == outcome.results
            wanted == outcome.request[1].include_answer /\ resp.answer # <<>>
        IN  /\ outcome.kind = "returned"
            /\ Len(out) = IF wanted THEN n + 1 ELSE n
            /\ \A i \in 1..n :
                  /\ out[i].title = resp.results[i].title
                  /\ out[i].url = resp.results[i].url
                  /\ out[i].content = resp.results[i].content
                  /\ out[i].score = IF 100 - 5 * (i - 1) > 10
                                    THEN 100 - 5 * (i - 1) ELSE 10
                  /\ out[i].score >= 10 /\ out[i].score <= 100
            /\ \A i, j \in 1..n : i < j => out[i].score >= out[j].score
            /\ wanted =>
                  out[n + 1] = [title |-> <<"AI Summary">>, url |-> <<>>,
                                content |-> resp.answer, score |-> 95]

\* Twenty results, the last two at the floor, and the answer entry after them.
C22_Witness ==
    /\ Answered200
    /\ Len(outcome.response[1].results) = 20
    /\ Len(outcome.results) = 21
    /\ outcome.results[19].score = 10
    /\ outcome.results[20].score = 10
    /\ outcome.results[20].title # outcome.results[19].title
    /\ outcome.results[21].title = AISummaryTitle

(***************************************************************************)
(* Claims about summarize_research on a given list (SpecResearch).         *)
(***************************************************************************)
\* The results that count as sources, and those of them that have content.
UsableResults(value) ==
    SelectSeq(value, LAMBDA r : "error" \notin DOMAIN r
                                /\ {"title", "url"} \subseteq DOMAIN r)
DescribedResults(value) ==
    SelectSeq(UsableResults(value), LAMBDA r : "content" \in DOMAIN r)
Take(seq, n) == [k \in 1..(IF Len(seq) < n THEN Len(seq) ELSE n) |-> seq[k]]
\* The titles of the source lines of a summary text, in order: each line
\* starts with the chunk "- ", the title following it.
SourceLineStarts(text) == {i \in 1..Len(text) : text[i] = "- "}
SourceTitles(text) ==
    LET starts == SourceLineStarts(text)
        nth(k) == CHOOSE i \in starts : Cardinality({j \in starts : j < i}) = k - 1
    IN  [k \in 1..Cardinality(starts) |-> text[nth(k) + 1]]
EmptyPayload(text) == [summary |-> text, key_points |-> <<>>, sources |-> <<>>]
GivenList == summarized.made /\ summarized.search_results.given
                             /\ summarized.search_results.value # <<>>

\* What holds of the summary of a list with a usable source.
SummaryWithinLimits(value) ==
    LET usable == UsableResults(value)
        described == DescribedResults(value)
        points == Take(described, 5)
        listed == Take(usable, 10)
    IN  /\ Len(summary.key_points) <= 5
        /\ summary.key_points = [k \in 1..Len(points) |-> points[k].content]
        /\ Cardinality(SourceLineStarts(summary.summary)) <= 10
        /\ SourceTitles(summary.summary)
              = [k \in 1..Len(listed) |-> listed[k].title[1]]
        /\ summary.sources_count = Len(usable)

\* C23 (as stated): for a non-empty list summarize_research does not raise;
\* entries with an error key are skipped; key_points holds the content of at
\* most the first 5 usable results in input order and the summary text lists
\* at most the first 10 source lines; when no usable source remains the
\* "no valid results" summary with empty key_points and sources is returned.
C23_SkipsErrorsAndLimits ==
    GivenList =>
        LET value == summarized.search_results.value
        IN  IF UsableResults(value) = <<>>
            THEN summary = EmptyPayload(NoValidResults)
            ELSE SummaryWithinLimits(value)

\* C23 (amended): as above, but a list holding a single entry, which has an
\* error key, gives the summary that names the search error (with empty
\* key_points and sources), not the "no valid results" summary.
C23_SkipsErrorsNamesSingleError ==
    GivenList =>
        LET value == summarized.search_results.value
        IN  IF Len(value) = 1 /\ "error" \in DOMAIN value[1]
            THEN summary = EmptyPayload(
                     <<"Unable to summarize research due to search error: ">>
                     \o value[1].error)
            ELSE IF UsableResults(value) = <<>>
            THEN summary = EmptyPayload(NoValidResults)
            ELSE SummaryWithinLimits(value)

\* A list of 12 full entries: 5 key points and 10 source lines are kept.
C23_Witness ==
    /\ GivenList
    /\ Len(UsableResults(summarized.search_results.value)) = 12
    /\ Len(summary.key_points) = 5
    /\ Cardinality(SourceLineStarts(summary.summary)) = 10

\* A list of error entries, entries without content and full entries: the
\* error entries are skipped.
C23_MixedWitness ==
    /\ GivenList
    /\ Len(summarized.search_results.value) = 12
    /\ Len(UsableResults(summarized.search_results.value)) = 9
    /\ Len(DescribedResults(summarized.search_results.value)) = 6
    /\ Len(summary.key_points) = 5

(***************************************************************************)
(* Claims about concurrent sessions (SpecSessions).                        *)
(***************************************************************************)
RECURSIVE AdmittedUpTo(_)
\* The calls admitted in the open window, of the sessions 1..n together.
AdmittedUpTo(n) == IF n = 0 THEN 0 ELSE admitted_by[n] + AdmittedUpTo(n - 1)

SharedQuota ==
    /\ 0 <= request_count /\ request_count <= max_requests
    /\ AdmittedUpTo(MaxSessions) = Len(winLog)
    /\ AdmittedUpTo(MaxSessions) <= max_requests
\* While a call stands between its check and its increment, the next step
\* is the increment of that call.
CheckAndIncrementTogether ==
    \A s \in Sessions : wrapper_at[s] = "count" =>
        /\ wrapper_at'[s] = "call"
        /\ request_count' = request_count + 1
        /\ \A t \in Sessions \ {s} : wrapper_at'[t] = wrapper_at[t]

\* C24: the counter is shared by the sessions of the process; in every
\* interleaving of their calls the check and the increment of one call are
\* not split by another call, the calls admitted within one window never
\* exceed max_requests in total across the sessions, and request_count stays
\* within 0..max_requests.
C24_SharedQuotaNeverExceeded ==
    []SharedQuota /\ [][CheckAndIncrementTogether]_vars

\* The window's quota is used up by calls of every session, one of them
\* still awaiting its search.
C24_Witness ==
    /\ request_count = max_requests
    /\ \A s \in Sessions : admitted_by[s] > 0
    /\ \E s \in Sessions : wrapper_at[s] = "call"
    /\ \E s \in Sessions : wrapper_at[s] = "idle"

(***************************************************************************)
(* Claims about the recipients of a draft (SpecGmail).                     *)
(***************************************************************************)
\* The call went on to the Gmail client, create_gmail_draft_tool.
ReachedGmailClient == Did("authenticate")
\* The Gmail client ended at the serialization of the message.
RefusedBySerialization ==
    /\ pc = "done"
    /\ trace[Len(trace)] = "as_bytes"
    /\ drafts = <<>>

EmailAgentBlocksInvalidOnly ==
    op = "create_gmail_draft" /\ pc # "idle" =>
        /\ ReachedGmailClient <=> ~HasInvalidRecipient
        /\ ~ReachedGmailClient => pc = "done" /\ Failed(result)
GmailClientValidatesNothing ==
    op = "create_gmail_draft_tool" /\ pc # "idle" =>
        /\ ~Did("validate")
        /\ ReachedGmailClient
        /\ Len(drafts) = 1 => drafts[1].to = args.to /\ drafts[1].cc = args.cc

C25_MalformedWitness ==
    /\ op = "create_gmail_draft_tool"
    /\ pc = "done"
    /\ Classes(args.to) = {"invalid"}
    /\ Len(drafts) = 1

(***************************************************************************)
(* Claims about the nested run of a delegation (SpecDelegate).             *)
(***************************************************************************)
NestedRunOfCaller ==
    rpc \in {"nested", "done"} =>
        /\ nested.started = 1
        /\ nested.ctx_deps \in ResearchDeps
        /\ nested.deps.gmail_credentials_path = nested.ctx_deps.gmail_credentials_path
        /\ nested.deps.gmail_token_path = nested.ctx_deps.gmail_token_path
        /\ nested.deps.session_id = nested.ctx_deps.session_id
ResponseAfterNestedRun ==
    /\ rpc = "nested" => nested.ended = "none" /\ ~delegation.made
    /\ delegation.made => rpc = "done" /\ nested.ended \in {"returned", "raised"}
    /\ pc # "idle" => rpc = "nested"
\* The tool ends only in a step that ends the nested run, and not while a
\* tool call of the nested run is under way.
EndsWithNestedRun ==
    /\ rpc' = "done" /\ rpc # "done" =>
          /\ rpc = "nested"
          /\ pc = "idle"
          /\ nested.ended = "none"
          /\ nested'.ended \in {"returned", "raised"}
          /\ nested'.started = 1
    /\ rpc = "nested" /\ pc # "idle" => rpc' = "nested"

\* C26: a delegate_to_email_agent call starts exactly one nested Email Agent
\* run, its dependencies carrying the credentials path, the token path and
\* the session id of the calling run; the response is produced only after
\* that run has returned or raised, nothing ending the run early, so the
\* outer turn does not complete while the nested run is running.
C26_OneNestedRunAwaited ==
    /\ []NestedRunOfCaller
    /\ []ResponseAfterNestedRun
    /\ [][EndsWithNestedRun]_vars

\* A delegation of the run of session-1 whose nested run made a Gmail call
\* and returned.
C26_Witness ==
    /\ rop = "delegate_to_email_agent"
    /\ rpc = "done"
    /\ nested.ctx_deps.session_id = "session-1"
    /\ nested.deps.session_id = "session-1"
    /\ Len(nested.tool_results) = 1
    /\ nested.ended = "returned"
    /\ delegation.made

(***************************************************************************)
(* Claims about the quota a search call uses (SpecSearch).                 *)
(***************************************************************************)
\* How the call of the step ended.
EndedAs(kind) ==
    CASE kind = "rejected" -> outcome'.exc = RateLimitError
      [] kind = "empty query" -> outcome'.exc = EmptyQueryError
      [] kind = "mock, no request" ->
            outcome'.kind = "returned" /\ outcome'.request = NoRequest
      [] kind = "request posted" ->
            outcome'.kind = "returned" /\ outcome'.request # NoRequest
\* The quota left in the window the call falls in, before the call.
QuotaLeft ==
    max_requests - (IF now - last_request > window THEN 0 ELSE request_count)

\* C27: every call the limiter admits uses up exactly one unit of the
\* window's quota whatever its outcome: the empty-query ValueError, the mock
\* results of an empty or placeholder key (no request is posted in either),
\* or a posted request; a call the limiter rejects leaves request_count and
\* last_request as they were.
C27_AdmittedCallUsesOneUnit ==
    [][CallStep =>
        /\ \E kind \in {"rejected", "empty query", "mock, no request",
                        "request posted"} : EndedAs(kind)
        /\ ~EndedAs("rejected") =>
              /\ QuotaLeft >= 1
              /\ max_requests - request_count' = QuotaLeft - 1
        /\ EndedAs("rejected") =>
              /\ QuotaLeft = 0
              /\ request_count' = request_count
              /\ last_request' = last_request]_vars

\* The second call of a window ended with the empty-query ValueError and
\* is counted.
C27_Witness ==
    /\ call.made
    /\ outcome.exc = EmptyQueryError
    /\ outcome.request = NoRequest
    /\ request_count = 2
    /\ Len(winLog) = 2

(***************************************************************************)
(* Claims about the credential of a successful authentication (SpecGmail). *)
(***************************************************************************)
\* C28: authenticate_gmail_tool returns success only with a valid
\* credential (one that has an access token and is not expired), whatever
\* the token file holds and however refresh and consent flow end.
C28_SuccessMeansValidCredential ==
    pc = "auth" =>
        \A env \in AttemptEnvs :
            LET r == auth_attempt(token_file, env)
            IN  r.ok => r.creds.valid /\ ~r.creds.expired

(***************************************************************************)
(* Claims about the addresses handed to the Gmail client (SpecGmail).      *)
(***************************************************************************)
\* The addresses the validator returned as valid or suspicious for a list.
Accepted(list) ==
    LET v == validate_email_addresses_tool(list)
    IN  {v.valid_emails[k] : k \in 1..Len(v.valid_emails)}
        \cup {v.suspicious_emails[k] : k \in 1..Len(v.suspicious_emails)}
PassedAsValidated(list) == \A k \in 1..Len(list) : list[k] \in Accepted(list)

\* C29: whenever create_gmail_draft calls the Gmail client, each address it
\* passes in to, cc and bcc equals, character for character, an address the
\* validator returned as valid or suspicious in that call.
C29_ValidatedAddressesReachGmail ==
    op = "create_gmail_draft" /\ Did("authenticate") =>
        /\ PassedAsValidated(args.to)
        /\ PassedAsValidated(args.cc)
        /\ PassedAsValidated(args.bcc)
        /\ \A k \in 1..Len(drafts) :
              /\ PassedAsValidated(drafts[k].to)
              /\ PassedAsValidated(drafts[k].cc)
              /\ PassedAsValidated(drafts[k].bcc)

(***************************************************************************)
(* Claims about the token file of a failed authentication (SpecGmail).     *)
(***************************************************************************)
AuthenticationRaised ==
    /\ op = "authenticate_gmail_tool"
    /\ pc = "done"
    /\ result.kind = "raised"

====
